---------------------------- MODULE Spec2Model ----------------------------
(***************************************************************************)
(* A model of lldb's symbol table (Symtab.cpp): the symbol store, the four *)
(* name indexes, the file-address index, and the operations that build and *)
(* query them.                                                             *)
(*                                                                         *)
(* Positions are 0-based as in the code: the symbol at position i is       *)
(* m_symbols[i + 1] of the TLA+ sequence.                                  *)
(***************************************************************************)
EXTENDS Integers, Sequences, FiniteSets, TLC

VARIABLES
    m_symbols,                      \* std::vector<Symbol>
    m_name_to_index,                \* ALL names      (UniqueCStringMap<uint32_t>)
    m_basename_to_index,            \* BASENAMES
    m_method_to_index,              \* METHODS
    m_selector_to_index,            \* SELECTORS
    m_file_addr_to_index,           \* RangeDataVector<addr_t, addr_t, uint32_t>
    m_name_indexes_computed,
    m_file_addr_to_index_computed,
    result,                         \* what the last call returned to its caller
    m_objfile,                      \* ObjectFile *: the file the table belongs to
    m_mutex,                        \* the recursive mutex: its owner and depth
    thread,                         \* where each thread is inside the table's code
    handler_class,                  \* which of the three handler classes the handler object is
    m_impl_code,                    \* m_get_..._impl_code: the UtilityFunction it owns
    m_return_buffer_addr,           \* m_get_..._return_buffer_addr
    process,                        \* the inferior: the memory it has handed out
    m_retbuffer_mutex,              \* m_get_..._retbuffer_mutex: the thread that owns it, or 0
    handler_thread                  \* where each thread is inside the handler's code

vars == << m_symbols, m_name_to_index, m_basename_to_index, m_method_to_index,
           m_selector_to_index, m_file_addr_to_index, m_name_indexes_computed,
           m_file_addr_to_index_computed, result, m_objfile, m_mutex, thread,
           handler_class, m_impl_code, m_return_buffer_addr, process,
           m_retbuffer_mutex, handler_thread >>

handlerThreadVars == << m_retbuffer_mutex, handler_thread >>

handlerVars == << handler_class, m_impl_code, m_return_buffer_addr, process,
                 handlerThreadVars >>

threadVars == << m_mutex, thread >>

(***************************************************************************)
(* Bounds of the model.                                                    *)
(***************************************************************************)
MaxNameSymbols == 2
MaxAddrSymbols == 2
\* Entries of earlier builds that BASENAMES, METHODS and SELECTORS may hold
\* when one more symbol is added
MaxStaleEntries == 2

(***************************************************************************)
(* Sequence helpers.                                                       *)
(***************************************************************************)
Range(s) == { s[k] : k \in DOMAIN s }

RECURSIVE SeqSum(_)
SeqSum(s) == IF s = << >> THEN 0 ELSE Head(s) + SeqSum(Tail(s))

(***************************************************************************)
(* Names.  The strings a symbol can carry, and what the demanglers and the *)
(* object file make of them.  NameOrder is the order of the interned       *)
(* strings in the string pool: UniqueCStringMap sorts by it.               *)
(***************************************************************************)
NameOrder ==
    << "foo", "_ZN1A3fooEv", "A::foo()", "_ZN1AD1Ev", "A::~A()", "~A",
       "_Z3foov", "foo()", "-[C(Cat) foo]", "-[C foo]", "foo@V1",
       "_ZN1A3barEv", "A::bar()", "bar", "g_var",
       "_ZNK1A3getEv", "A::get() const", "get", "_ZN2ns3fooEv", "ns::foo()",
       "_ZTV1A", "vtable for A", "_ZGVZ3foovE1x", "guard variable for foo()::x",
       "_ZZ3foovE1x", "foo()::x" >>

NameRank(name) == CHOOSE k \in DOMAIN NameOrder : NameOrder[k] = name

\* entry.cstring[0] == '_' && [1] == 'Z' && [2] not in {'T', 'G', 'Z'}
IsCxxFunctionMangling(cstring) ==
    cstring \in { "_ZN1A3fooEv", "_ZN1AD1Ev", "_Z3foov", "_ZN1A3barEv",
                  "_ZNK1A3getEv", "_ZN2ns3fooEv" }

\* entry.cstring[0] == '~'
IsDestructorBasename(cstring) == cstring \in { "~A" }

\* CPlusPlusLanguage::MethodName of a demangled name
CxxMethodName(demangled) ==
    CASE demangled = "A::foo()" -> [basename |-> "foo", context |-> "A", qualifiers |-> ""]
      [] demangled = "A::~A()"  -> [basename |-> "~A",  context |-> "A", qualifiers |-> ""]
      [] demangled = "A::bar()" -> [basename |-> "bar", context |-> "A", qualifiers |-> ""]
      [] demangled = "foo()"    -> [basename |-> "foo", context |-> "",  qualifiers |-> ""]
      [] demangled = "A::get() const"
                                -> [basename |-> "get", context |-> "A", qualifiers |-> "const"]
      [] demangled = "ns::foo()" -> [basename |-> "foo", context |-> "ns", qualifiers |-> ""]
      [] OTHER                  -> [basename |-> "",    context |-> "",  qualifiers |-> ""]

\* ObjCLanguage::MethodName of a name (strict)
ObjCMethodName(name) ==
    CASE name = "-[C(Cat) foo]" -> [valid |-> TRUE, selector |-> "foo", no_category |-> "-[C foo]"]
      [] name = "-[C foo]"      -> [valid |-> TRUE, selector |-> "foo", no_category |-> ""]
      [] OTHER                  -> [valid |-> FALSE, selector |-> "", no_category |-> ""]

\* ObjectFile::StripLinkerSymbolAnnotations
StripLinkerSymbolAnnotations(name) ==
    CASE name = "foo@V1" -> "foo"
      [] OTHER           -> name

(***************************************************************************)
(* Symbols.                                                                *)
(***************************************************************************)
\* UINT32_MAX written as -1, the same 32 bits: 0 - 1 gives it, as "--idx"
\* does in the code, and no position is equal to it.
UINT32_MAX == -1

\* LLDB_INVALID_ADDRESS (UINT64_MAX) written as -1: no address is equal to it
LLDB_INVALID_ADDRESS == -1

Symbol(type, mangled, demangled, annotated) ==
    [ id |-> 0, type |-> type, mangled |-> mangled, demangled |-> demangled,
      annotated |-> annotated,
      value_is_address |-> FALSE, file_addr |-> 0, byte_size |-> 0,
      size_is_valid |-> FALSE, size_is_synthesized |-> FALSE,
      sibling_idx |-> UINT32_MAX ]

IsTrampoline(symbol) == symbol.type = "Trampoline"
GetMangledName(symbol) == symbol.mangled
GetDemangledName(symbol) == symbol.demangled
ContainsLinkerAnnotations(symbol) == symbol.annotated

\* The symbols an object file hands to AddSymbol in the name scenarios.
NameSymbols ==
    { Symbol("Code", "_ZN1A3fooEv", "A::foo()", FALSE),
      Symbol("Code", "_ZN1AD1Ev", "A::~A()", FALSE),
      Symbol("Trampoline", "_Z3foov", "foo()", FALSE),
      Symbol("Code", "", "-[C(Cat) foo]", FALSE),
      Symbol("Code", "", "foo@V1", TRUE),
      Symbol("Data", "", "foo", FALSE) }


\* The object file's section list: a container with two leaf sections,
\* [4, 8) and [8, 12).
SectionList ==
    << [ file_addr |-> 4, byte_size |-> 8,
         children |-> << [file_addr |-> 4, byte_size |-> 4, children |-> << >>],
                         [file_addr |-> 8, byte_size |-> 4, children |-> << >>] >> ] >>

\* What the table reads of its object file: GetSectionList()
ObjectFile == [ section_list |-> SectionList ]

(***************************************************************************)
(* UniqueCStringMap: a vector of (cstring, value) entries.  Append adds at *)
(* the end, Sort orders the entries by their string, GetValues and the     *)
(* FindFirst/FindNextValueForName loop give the values filed under a name. *)
(***************************************************************************)
Entry(cstring, value) == [cstring |-> cstring, value |-> value]

RECURSIVE InsertByName(_, _)
InsertByName(sorted, e) ==
    IF sorted = << >> THEN << e >>
    ELSE IF NameRank(e.cstring) < NameRank(Head(sorted).cstring)
         THEN << e >> \o sorted
         ELSE << Head(sorted) >> \o InsertByName(Tail(sorted), e)

RECURSIVE SortByName(_)
SortByName(map) ==
    IF map = << >> THEN << >>
    ELSE InsertByName(SortByName(SubSeq(map, 1, Len(map) - 1)), map[Len(map)])

RECURSIVE GetValues(_, _)
GetValues(map, cstring) ==
    IF map = << >> THEN << >>
    ELSE IF Head(map).cstring = cstring
         THEN << Head(map).value >> \o GetValues(Tail(map), cstring)
         ELSE GetValues(Tail(map), cstring)

(***************************************************************************)
(* InitNameIndexes.  The loop over the symbols carries the four indexes,   *)
(* the set of known class contexts and the deferred entries               *)
(* (mangled_name_to_index with symbol_contexts).                           *)
(***************************************************************************)
NameBuildStart ==
    [ all |-> m_name_to_index, basenames |-> m_basename_to_index,
      methods |-> m_method_to_index, selectors |-> m_selector_to_index,
      class_contexts |-> {}, deferred |-> << >> ]

ClassifyCxxUnknownContextAsBasename(st, idx, symbol, cstring) ==
    IF symbol.type \in {"Code", "Resolver"} /\ IsCxxFunctionMangling(cstring)
    THEN LET cxx_method == CxxMethodName(GetDemangledName(symbol))
             entry == Entry(cxx_method.basename, idx)
         IN  IF cxx_method.basename = "" THEN st
             ELSE IF IsDestructorBasename(cxx_method.basename)
                     \/ cxx_method.qualifiers # ""
             THEN [st EXCEPT !.class_contexts = @ \cup {cxx_method.context},
                             !.methods = Append(@, entry)]
             ELSE IF cxx_method.context # "" /\ cxx_method.context \in st.class_contexts
             THEN [st EXCEPT !.methods = Append(@, entry)]
             ELSE [st EXCEPT !.basenames = Append(@, entry)]
    ELSE st

\* Lines 932-986: the C++ classification of one symbol; cstring is the
\* mangled name (annotation-stripped when the symbol has annotations).
ClassifyCxx(st, idx, symbol, cstring) ==
    IF symbol.type \in {"Code", "Resolver"} /\ IsCxxFunctionMangling(cstring)
    THEN LET cxx_method == CxxMethodName(GetDemangledName(symbol))
             entry == Entry(cxx_method.basename, idx)
         IN  IF cxx_method.basename = "" THEN st
             ELSE IF IsDestructorBasename(cxx_method.basename)
                     \/ cxx_method.qualifiers # ""
             THEN [st EXCEPT !.class_contexts = @ \cup {cxx_method.context},
                             !.methods = Append(@, entry)]
             ELSE IF cxx_method.context # ""
             THEN IF cxx_method.context \in st.class_contexts
                  THEN [st EXCEPT !.methods = Append(@, entry)]
                  ELSE [st EXCEPT !.deferred =
                            Append(@, [entry |-> entry, context |-> cxx_method.context])]
             ELSE [st EXCEPT !.basenames = Append(@, entry)]
    ELSE st

\* Lines 919-987: the mangled name
AddMangledName(st, idx, symbol) ==
    LET cstring == GetMangledName(symbol)
    IN  IF cstring = "" THEN st
        ELSE LET s1 == [st EXCEPT !.all = Append(@, Entry(cstring, idx))]
                 stripped == StripLinkerSymbolAnnotations(cstring)
             IN  IF ContainsLinkerAnnotations(symbol)
                 THEN ClassifyCxx([s1 EXCEPT !.all = Append(@, Entry(stripped, idx))],
                                  idx, symbol, stripped)
                 ELSE ClassifyCxx(s1, idx, symbol, cstring)

\* Lines 989-1015: the demangled name, the selector, the name without category
AddDemangledName(st, idx, symbol) ==
    LET demangled == GetDemangledName(symbol)
        stripped == StripLinkerSymbolAnnotations(demangled)
        annotated == demangled # "" /\ ContainsLinkerAnnotations(symbol)
        s1 == IF demangled = "" THEN st
              ELSE IF annotated
                   THEN [st EXCEPT !.all = @ \o << Entry(demangled, idx), Entry(stripped, idx) >>]
                   ELSE [st EXCEPT !.all = Append(@, Entry(demangled, idx))]
        objc_method == ObjCMethodName(IF annotated THEN stripped ELSE demangled)
    IN  IF objc_method.valid
        THEN LET s2 == [s1 EXCEPT !.selectors = Append(@, Entry(objc_method.selector, idx))]
             IN  IF objc_method.no_category # ""
                 THEN [s2 EXCEPT !.all = Append(@, Entry(objc_method.no_category, idx))]
                 ELSE s2
        ELSE s1

\* Lines 907-1017: one turn of the loop
NameIndexStep(st, idx, symbol) ==
    IF IsTrampoline(symbol) THEN st
    ELSE AddDemangledName(AddMangledName(st, idx, symbol), idx, symbol)

RECURSIVE NameIndexPass(_, _, _)
NameIndexPass(st, symbols, idx) ==
    IF idx >= Len(symbols) THEN st
    ELSE NameIndexPass(NameIndexStep(st, idx, symbols[idx + 1]), symbols, idx + 1)

\* Lines 1019-1041: the deferred entries, once every class context is known
RECURSIVE ResolveDeferred(_, _)
ResolveDeferred(st, i) ==
    IF i > Len(st.deferred) THEN st
    ELSE LET d == st.deferred[i]
         IN  IF d.context \in st.class_contexts
             THEN ResolveDeferred([st EXCEPT !.methods = Append(@, d.entry)], i + 1)
             ELSE ResolveDeferred([st EXCEPT !.methods = Append(@, d.entry),
                                             !.basenames = Append(@, d.entry)], i + 1)

\* The four indexes InitNameIndexes leaves, given the ones it found.
BuildNameIndexes(start, symbols) ==
    LET st == ResolveDeferred(NameIndexPass(start, symbols, 0), 1)
    IN  [ all |-> SortByName(st.all), basenames |-> SortByName(st.basenames),
          methods |-> SortByName(st.methods), selectors |-> SortByName(st.selectors) ]

NameIndexesAfterInitFlagIgnored ==
    BuildNameIndexes(NameBuildStart, m_symbols)

\* The indexes as a call that runs "if (!m_name_indexes_computed)
\* InitNameIndexes();" leaves them.
NameIndexesAfterInit ==
    IF m_name_indexes_computed
    THEN [ all |-> m_name_to_index, basenames |-> m_basename_to_index,
           methods |-> m_method_to_index, selectors |-> m_selector_to_index ]
    ELSE BuildNameIndexes(NameBuildStart, m_symbols)

nameIndexVars == << m_name_to_index, m_basename_to_index, m_method_to_index,
                    m_selector_to_index, m_name_indexes_computed >>

\* "if (!m_name_indexes_computed) InitNameIndexes();"
InitNameIndexes ==
    LET ix == NameIndexesAfterInit
    IN  /\ m_name_indexes_computed' = TRUE
        /\ m_name_to_index' = ix.all
        /\ m_basename_to_index' = ix.basenames
        /\ m_method_to_index' = ix.methods
        /\ m_selector_to_index' = ix.selectors

(***************************************************************************)
(* Mutex::Locker on m_mutex (a recursive mutex) and the threads that call  *)
(* into the table.                                                         *)
(***************************************************************************)
Threads == { 1, 2 }

Unlocked == [ owner |-> 0, count |-> 0 ]

IdleThread ==
    [ pc |-> "idle", return_pc |-> "idle", name |-> "", name_type_mask |-> {},
      child_idx |-> 0, temp_symbol_indexes |-> << >>, symbol_indexes |-> << >> ]

CanLock(t) == m_mutex.owner \in { 0, t }
Lock(t) == [ owner |-> t, count |-> m_mutex.count + 1 ]
Unlock(t) == IF m_mutex.count = 1 THEN Unlocked
             ELSE [ owner |-> t, count |-> m_mutex.count - 1 ]

\* A thread that is not inside the handler's code
IdleCaller == [ pc |-> "idle", env |-> << >>, calls |-> << >>, pending |-> << >> ]

\* A handler object as its constructor leaves it, in a live process that
\* has allocated nothing for it.
NullUtilityFunction == [ is_null |-> TRUE, m_caller_up |-> FALSE ]

NewHandler(classes) ==
    /\ handler_class \in classes
    /\ m_impl_code = NullUtilityFunction
    /\ m_return_buffer_addr = LLDB_INVALID_ADDRESS
    /\ process = [ alive |-> TRUE, allocated |-> {}, deallocated |-> << >> ]
    /\ m_retbuffer_mutex = 0
    /\ handler_thread = [ t \in Threads |-> IdleCaller ]

(***************************************************************************)
(* What a call hands back: the operation, its arguments, and the values it *)
(* returned or left in the caller's vector.  init_skipped tells that the   *)
(* call found m_name_indexes_computed set and built nothing.               *)
(***************************************************************************)
NoResult ==
    [ op |-> "none", name |-> "", mask |-> {}, addr |-> 0, flag |-> FALSE,
      input |-> << >>, indexes |-> << >>, count |-> 0, fault |-> FALSE,
      init_skipped |-> FALSE ]

(***************************************************************************)
(* std::sort and std::unique on a vector of positions.                     *)
(***************************************************************************)
RECURSIVE InsertAscending(_, _)
InsertAscending(sorted, x) ==
    IF sorted = << >> THEN << x >>
    ELSE IF x < Head(sorted) THEN << x >> \o sorted
         ELSE << Head(sorted) >> \o InsertAscending(Tail(sorted), x)

RECURSIVE SortAscending(_)
SortAscending(v) ==
    IF v = << >> THEN << >>
    ELSE InsertAscending(SortAscending(Tail(v)), Head(v))

\* std::unique(first, last): every element that differs from the last one
\* kept is copied down to the front; the vector keeps its length.  It gives
\* the vector and the new logical end (the number of elements kept).
RECURSIVE UniqueLoop(_, _, _)
UniqueLoop(v, kept, first) ==
    IF first > Len(v) THEN [vector |-> v, new_end |-> kept]
    ELSE IF v[kept] # v[first]
         THEN UniqueLoop([v EXCEPT ![kept + 1] = v[first]], kept + 1, first + 1)
         ELSE UniqueLoop(v, kept, first + 1)

StdUnique(v) ==
    IF v = << >> THEN [vector |-> v, new_end |-> 0] ELSE UniqueLoop(v, 1, 2)

(***************************************************************************)
(* AddSymbol                                                               *)
(***************************************************************************)
AddSymbolKeepingNameFlag(symbol) ==
    /\ LET symbol_idx == Len(m_symbols)
       IN  /\ m_name_to_index' = << >>
           /\ m_file_addr_to_index' = << >>
           /\ m_symbols' = Append(m_symbols, symbol)
           /\ m_file_addr_to_index_computed' = FALSE
           /\ m_name_indexes_computed' = m_name_indexes_computed
           /\ result' = [NoResult EXCEPT !.op = "AddSymbol", !.input = << symbol >>,
                                         !.count = symbol_idx]
    /\ UNCHANGED << m_basename_to_index, m_method_to_index, m_selector_to_index >>
    /\ UNCHANGED threadVars
    /\ UNCHANGED << m_objfile, handlerVars >>

AddSymbol(symbol) ==
    /\ LET symbol_idx == Len(m_symbols)
       IN  /\ m_name_to_index' = << >>
           /\ m_file_addr_to_index' = << >>
           /\ m_symbols' = Append(m_symbols, symbol)
           /\ m_file_addr_to_index_computed' = FALSE
           /\ m_name_indexes_computed' = FALSE
           /\ result' = [NoResult EXCEPT !.op = "AddSymbol", !.input = << symbol >>,
                                         !.count = symbol_idx]
    /\ UNCHANGED << m_basename_to_index, m_method_to_index, m_selector_to_index >>
    /\ UNCHANGED threadVars
    /\ UNCHANGED << m_objfile, handlerVars >>

(***************************************************************************)
(* Reserve, Resize and SectionFileAddressesChanged                         *)
(***************************************************************************)
\* What std::vector::resize fills the new places with: Symbol()
DefaultSymbol == [ Symbol("Invalid", "", "", FALSE) EXCEPT !.id = UINT32_MAX ]

\* m_symbols.reserve(count): the capacity of the vector is not a part of the
\* model, the symbols and their positions stay.
Reserve(count) ==
    /\ result' = [NoResult EXCEPT !.op = "Reserve", !.count = count]
    /\ UNCHANGED << m_symbols, m_file_addr_to_index, m_file_addr_to_index_computed >>
    /\ UNCHANGED nameIndexVars
    /\ UNCHANGED threadVars
    /\ UNCHANGED << m_objfile, handlerVars >>

\* m_symbols.resize(count)
Resize(count) ==
    /\ m_symbols' = IF count <= Len(m_symbols)
                    THEN SubSeq(m_symbols, 1, count)
                    ELSE m_symbols \o [ k \in 1 .. count - Len(m_symbols) |-> DefaultSymbol ]
    /\ result' = [NoResult EXCEPT !.op = "Resize", !.count = count]
    /\ UNCHANGED << m_file_addr_to_index, m_file_addr_to_index_computed >>
    /\ UNCHANGED nameIndexVars
    /\ UNCHANGED threadVars
    /\ UNCHANGED << m_objfile, handlerVars >>

SectionFileAddressesChanged ==
    /\ m_name_to_index' = << >>
    /\ m_file_addr_to_index_computed' = FALSE
    /\ result' = [NoResult EXCEPT !.op = "SectionFileAddressesChanged"]
    /\ UNCHANGED << m_symbols, m_file_addr_to_index, m_basename_to_index,
                    m_method_to_index, m_selector_to_index, m_name_indexes_computed >>
    /\ UNCHANGED threadVars
    /\ UNCHANGED << m_objfile, handlerVars >>

(***************************************************************************)
(* AppendSymbolIndexesWithName(symbol_name, indexes), indexes empty        *)
(***************************************************************************)
AppendSymbolIndexesWithName(symbol_name) ==
    /\ IF symbol_name # ""
       THEN /\ InitNameIndexes
            /\ LET indexes == GetValues(NameIndexesAfterInit.all, symbol_name)
               IN  result' = [NoResult EXCEPT !.op = "AppendSymbolIndexesWithName",
                                              !.name = symbol_name,
                                              !.init_skipped = m_name_indexes_computed,
                                              !.indexes = indexes,
                                              !.count = Len(indexes)]
       ELSE /\ UNCHANGED nameIndexVars
            /\ result' = [NoResult EXCEPT !.op = "AppendSymbolIndexesWithName"]
    /\ UNCHANGED << m_symbols, m_file_addr_to_index, m_file_addr_to_index_computed >>
    /\ UNCHANGED threadVars
    /\ UNCHANGED << m_objfile, handlerVars >>

(***************************************************************************)
(* AppendSymbolIndexesWithNameAndType(symbol_name, symbol_type, indexes):  *)
(* indexes is the caller's vector, result.input what it held before the    *)
(* call.                                                                   *)
(***************************************************************************)
\* Lines 1313-1320: the loop runs from indexes.begin() and erases every
\* position whose symbol is not of the type asked for.
EraseOtherTypes(symbols, symbol_type, indexes) ==
    SelectSeq(indexes, LAMBDA pos : symbol_type = "Any" \/ symbols[pos + 1].type = symbol_type)

AppendSymbolIndexesWithNameAndType(symbol_name, symbol_type, indexes) ==
    /\ IF symbol_name # ""
       THEN /\ InitNameIndexes
            /\ LET values == GetValues(NameIndexesAfterInit.all, symbol_name)
                   appended == indexes \o values
                   left == IF Len(values) > 0
                           THEN EraseOtherTypes(m_symbols, symbol_type, appended)
                           ELSE appended
               IN  result' = [NoResult EXCEPT !.op = "AppendSymbolIndexesWithNameAndType",
                                              !.name = symbol_name,
                                              !.mask = { symbol_type },
                                              !.init_skipped = m_name_indexes_computed,
                                              !.input = indexes,
                                              !.indexes = left,
                                              !.count = Len(left)]
       ELSE /\ UNCHANGED nameIndexVars
            /\ result' = [NoResult EXCEPT !.op = "AppendSymbolIndexesWithNameAndType",
                                          !.mask = { symbol_type },
                                          !.input = indexes,
                                          !.indexes = indexes,
                                          !.count = Len(indexes)]
    /\ UNCHANGED << m_symbols, m_file_addr_to_index, m_file_addr_to_index_computed >>
    /\ UNCHANGED threadVars
    /\ UNCHANGED << m_objfile, handlerVars >>

(***************************************************************************)
(* FindFunctionSymbols(name, name_type_mask, sc_list)                      *)
(***************************************************************************)
\* Lines 1766-1783: the full-name matches that are functions
RECURSIVE KeepFunctionTypes(_)
KeepFunctionTypes(temp_symbol_indexes) ==
    IF temp_symbol_indexes = << >> THEN << >>
    ELSE LET idx == Head(temp_symbol_indexes)
             rest == KeepFunctionTypes(Tail(temp_symbol_indexes))
         IN  IF idx < Len(m_symbols)
                /\ m_symbols[idx + 1].type \in {"Code", "Resolver", "ReExported"}
             THEN << idx >> \o rest
             ELSE rest

FunctionSymbolIndexesMethodSuppressed(ix, name, name_type_mask) ==
    LET full == IF name_type_mask \cap {"Base", "Full"} # {}
                THEN KeepFunctionTypes(GetValues(ix.all, name)) ELSE << >>
        base == IF "Base" \in name_type_mask
                THEN GetValues(ix.basenames, name) ELSE << >>
        method == IF "Method" \in name_type_mask /\ "Base" \notin name_type_mask
                  THEN GetValues(ix.methods, name) ELSE << >>
        selector == IF "Selector" \in name_type_mask
                    THEN GetValues(ix.selectors, name) ELSE << >>
        symbol_indexes == full \o base \o method \o selector
        unique == StdUnique(SortAscending(symbol_indexes))
    IN  SubSeq(unique.vector, 1, unique.new_end)

FunctionSymbolIndexes(ix, name, name_type_mask) ==
    LET full == IF name_type_mask \cap {"Base", "Full"} # {}
                THEN KeepFunctionTypes(GetValues(ix.all, name)) ELSE << >>
        base == IF "Base" \in name_type_mask
                THEN GetValues(ix.basenames, name) ELSE << >>
        method == IF "Method" \in name_type_mask
                  THEN GetValues(ix.methods, name) ELSE << >>
        selector == IF "Selector" \in name_type_mask
                    THEN GetValues(ix.selectors, name) ELSE << >>
        symbol_indexes == full \o base \o method \o selector
        unique == StdUnique(SortAscending(symbol_indexes))
    IN  SubSeq(unique.vector, 1, unique.new_end)

FindFunctionSymbols(name, name_type_mask) ==
    /\ IF name_type_mask # {}
       THEN /\ InitNameIndexes
            /\ LET symbol_indexes ==
                       FunctionSymbolIndexes(NameIndexesAfterInit, name, name_type_mask)
               IN  result' = [NoResult EXCEPT !.op = "FindFunctionSymbols",
                                              !.name = name, !.mask = name_type_mask,
                                              !.init_skipped = m_name_indexes_computed,
                                              !.indexes = symbol_indexes,
                                              !.count = Len(symbol_indexes)]
       ELSE /\ UNCHANGED nameIndexVars
            /\ result' = [NoResult EXCEPT !.op = "FindFunctionSymbols", !.name = name]
    /\ UNCHANGED << m_symbols, m_file_addr_to_index, m_file_addr_to_index_computed >>
    /\ UNCHANGED threadVars
    /\ UNCHANGED << m_objfile, handlerVars >>

(***************************************************************************)
(* The symbol table under name queries.                                    *)
(***************************************************************************)
QueryNames == { "foo", "foo@V1", "_Z3foov", "_ZN1A3fooEv", "" }
FunctionNames == { "foo", "~A" }
NameTypes == { "Full", "Base", "Method", "Selector" }
FunctionMasks ==
    { {}, { "Full" }, { "Base" }, { "Method" }, { "Selector" }, { "Base", "Method" },
      NameTypes }

Init ==
    /\ m_symbols = << >>
    /\ m_name_to_index = << >>
    /\ m_basename_to_index = << >>
    /\ m_method_to_index = << >>
    /\ m_selector_to_index = << >>
    /\ m_file_addr_to_index = << >>
    /\ m_name_indexes_computed = FALSE
    /\ m_file_addr_to_index_computed = FALSE
    /\ result = NoResult
    /\ m_objfile = ObjectFile
    /\ NewHandler({ "AppleGetQueuesHandler" })
    /\ m_mutex = Unlocked
    /\ thread = [ t \in Threads |-> IdleThread ]

Next ==
    \/ \E symbol \in NameSymbols :
           /\ Len(m_symbols) < MaxNameSymbols
           /\ Len(m_basename_to_index) + Len(m_method_to_index)
                  + Len(m_selector_to_index) <= MaxStaleEntries
           /\ AddSymbol([symbol EXCEPT !.id = Len(m_symbols)])
    \/ \E count \in 0 .. MaxNameSymbols : Reserve(count)
    \/ \E count \in 0 .. MaxNameSymbols : Resize(count)
    \/ SectionFileAddressesChanged
    \/ \E name \in QueryNames : AppendSymbolIndexesWithName(name)
    \/ \E name \in FunctionNames, mask \in FunctionMasks : FindFunctionSymbols(name, mask)

Spec == Init /\ [][Next]_vars


(***************************************************************************)
(* Symbol sizes and addresses.                                             *)
(***************************************************************************)
ValueIsAddress(symbol) == symbol.value_is_address
GetFileAddress(symbol) == symbol.file_addr
GetByteSize(symbol) == symbol.byte_size
GetByteSizeIsValid(symbol) == symbol.size_is_valid
SetByteSize(symbol, size) ==
    [symbol EXCEPT !.byte_size = size, !.size_is_valid = TRUE]
SetSizeIsSynthesized(symbol, b) == [symbol EXCEPT !.size_is_synthesized = b]
ContainsFileAddress(symbol, file_addr) ==
    /\ symbol.file_addr <= file_addr
    /\ file_addr < symbol.file_addr + symbol.byte_size

AddrSymbol(value_is_address, file_addr, byte_size, size_is_valid) ==
    [ Symbol("Code", "", "", FALSE) EXCEPT
          !.value_is_address = value_is_address, !.file_addr = file_addr,
          !.byte_size = byte_size, !.size_is_valid = size_is_valid ]

\* The symbols an object file hands to AddSymbol in the address scenarios:
\* no size reported, a size of zero reported, sizes reported (one nested in
\* another), an address outside every section, and a value that is no address.
AddrSymbols ==
    { AddrSymbol(TRUE, 4, 0, FALSE),
      AddrSymbol(TRUE, 6, 0, FALSE),
      AddrSymbol(TRUE, 4, 0, TRUE),
      AddrSymbol(TRUE, 4, 5, TRUE),
      AddrSymbol(TRUE, 6, 1, TRUE),
      AddrSymbol(TRUE, 2, 0, FALSE),
      AddrSymbol(FALSE, 6, 0, FALSE) }

(***************************************************************************)
(* RangeVector / RangeDataVector: entries (base, size[, data]); Sort       *)
(* orders them by base address, then size; the queries look for the        *)
(* entries whose range [base, base + size) holds an address.               *)
(***************************************************************************)
RangeEntry(base, size, data) == [base |-> base, size |-> size, data |-> data]

RangeLess(a, b) == a.base < b.base \/ (a.base = b.base /\ a.size < b.size)

RECURSIVE InsertRange(_, _)
InsertRange(sorted, e) ==
    IF sorted = << >> THEN << e >>
    ELSE IF RangeLess(e, Head(sorted)) THEN << e >> \o sorted
         ELSE << Head(sorted) >> \o InsertRange(Tail(sorted), e)

RECURSIVE SortRanges(_)
SortRanges(entries) ==
    IF entries = << >> THEN << >>
    ELSE InsertRange(SortRanges(SubSeq(entries, 1, Len(entries) - 1)), entries[Len(entries)])

RangeContains(e, addr) == e.base <= addr /\ addr < e.base + e.size

\* The positions in the vector of the entries that contain addr
EntriesThatContain(entries, addr) ==
    { k \in DOMAIN entries : RangeContains(entries[k], addr) }

SetMin(S) == CHOOSE x \in S : \A y \in S : x <= y

\* FindEntryThatContains: 0 stands for the null pointer
FindEntryThatContains(entries, addr) ==
    IF EntriesThatContain(entries, addr) = {} THEN 0
    ELSE SetMin(EntriesThatContain(entries, addr))

\* FindEntryIndexesThatContain: the data of every entry that contains addr
RECURSIVE FindEntryIndexesThatContain(_, _)
FindEntryIndexesThatContain(entries, addr) ==
    IF entries = << >> THEN << >>
    ELSE IF RangeContains(Head(entries), addr)
         THEN << Head(entries).data >> \o FindEntryIndexesThatContain(Tail(entries), addr)
         ELSE FindEntryIndexesThatContain(Tail(entries), addr)

(***************************************************************************)
(* AddSectionsToRangeMap: the leaf sections of the section tree            *)
(***************************************************************************)
RECURSIVE AddSectionsToRangeMap(_, _)
AddSectionsToRangeMap(sectlist, section_ranges) ==
    IF sectlist = << >> THEN section_ranges
    ELSE LET sect == Head(sectlist)
             added == IF Len(sect.children) > 0
                      THEN AddSectionsToRangeMap(sect.children, section_ranges)
                      ELSE Append(section_ranges,
                                  RangeEntry(sect.file_addr, sect.byte_size, 0))
         IN  AddSectionsToRangeMap(Tail(sectlist), added)

(***************************************************************************)
(* InitAddressIndexes                                                      *)
(***************************************************************************)
\* Lines 1546-1555: one entry for every symbol whose value is an address
RECURSIVE AppendAddressEntries(_, _, _)
AppendAddressEntries(entries, symbols, pos) ==
    IF pos >= Len(symbols) THEN entries
    ELSE LET symbol == symbols[pos + 1]
         IN  AppendAddressEntries(
                 IF ValueIsAddress(symbol)
                 THEN Append(entries, RangeEntry(GetFileAddress(symbol),
                                                 GetByteSize(symbol), pos))
                 ELSE entries,
                 symbols, pos + 1)

SizeFromLayoutSectionOnly(entries, i, section_ranges) ==
    LET curr_base_addr == entries[i].base
        containing_section == FindEntryThatContains(section_ranges, curr_base_addr)
    IN  IF containing_section # 0
        THEN section_ranges[containing_section].size
             - (curr_base_addr - section_ranges[containing_section].base)
        ELSE 0

\* Lines 1583-1611: the size of entry i, which has none: up to the end of
\* its section, or up to the next entry with a greater base if that is nearer.
SizeFromLayout(entries, i, section_ranges) ==
    LET curr_base_addr == entries[i].base
        containing_section == FindEntryThatContains(section_ranges, curr_base_addr)
        section_size ==
            IF containing_section # 0
            THEN section_ranges[containing_section].size
                 - (curr_base_addr - section_ranges[containing_section].base)
            ELSE 0
        later == { j \in i .. Len(entries) : entries[j].base > curr_base_addr }
    IN  IF later = {} THEN section_size
        ELSE LET size_to_next_symbol == entries[SetMin(later)].base - curr_base_addr
             IN  IF section_size = 0 \/ size_to_next_symbol < section_size
                 THEN size_to_next_symbol
                 ELSE section_size

\* Lines 1578-1621: the loop that fills in the sizes.  An entry left by an
\* earlier build can hold a position past the end of m_symbols; the write
\* through m_symbols[entry->data] then lands in the storage of an element
\* resize() destroyed (the vector keeps its capacity) and no symbol changes.
RECURSIVE FillInSizes(_, _, _)
FillInSizes(st, i, section_ranges) ==
    IF i > Len(st.entries) THEN st
    ELSE IF st.entries[i].size # 0 THEN FillInSizes(st, i + 1, section_ranges)
    ELSE LET sym_size == SizeFromLayout(st.entries, i, section_ranges)
             pos == st.entries[i].data
         IN  IF sym_size > 0
             THEN FillInSizes(
                      [ entries |-> [st.entries EXCEPT ![i].size = sym_size],
                        symbols |-> IF pos < Len(st.symbols)
                                    THEN [st.symbols EXCEPT ![pos + 1] =
                                        SetSizeIsSynthesized(SetByteSize(@, sym_size), TRUE)]
                                    ELSE st.symbols ],
                      i + 1, section_ranges)
             ELSE FillInSizes(st, i + 1, section_ranges)

\* The address index and the symbols InitAddressIndexes leaves.
BuildAddressIndex(entries, symbols) ==
    LET appended == AppendAddressEntries(entries, symbols, 0)
        section_ranges == SortRanges(AddSectionsToRangeMap(m_objfile.section_list, << >>))
        filled == FillInSizes([entries |-> SortRanges(appended), symbols |-> symbols],
                              1, section_ranges)
    IN  IF appended = << >> THEN [entries |-> appended, symbols |-> symbols]
        ELSE [entries |-> SortRanges(filled.entries), symbols |-> filled.symbols]

\* The state a call that runs "if (!m_file_addr_to_index_computed)
\* InitAddressIndexes();" goes on with.
AddressIndexAfterInit ==
    IF ~m_file_addr_to_index_computed /\ m_symbols # << >>
    THEN LET built == BuildAddressIndex(m_file_addr_to_index, m_symbols)
         IN  [ entries |-> built.entries, symbols |-> built.symbols, computed |-> TRUE ]
    ELSE [ entries |-> m_file_addr_to_index, symbols |-> m_symbols,
           computed |-> m_file_addr_to_index_computed ]

InitAddressIndexes ==
    LET ax == AddressIndexAfterInit
    IN  /\ m_file_addr_to_index_computed' = ax.computed
        /\ m_file_addr_to_index' = ax.entries
        /\ m_symbols' = ax.symbols

(***************************************************************************)
(* CalculateSymbolSizes                                                    *)
(***************************************************************************)
\* Lines 1641-1658.  As in InitAddressIndexes, m_symbols[entry.data] with a
\* position past the end touches no symbol of the table.
RECURSIVE UseRangeSizes(_, _, _)
UseRangeSizes(symbols, entries, i) ==
    IF i > Len(entries) THEN symbols
    ELSE LET entry == entries[i]
         IN  IF \/ entry.data >= Len(symbols)
                \/ GetByteSizeIsValid(symbols[entry.data + 1])
                \/ entry.size <= 0
             THEN UseRangeSizes(symbols, entries, i + 1)
             ELSE UseRangeSizes(
                      [symbols EXCEPT ![entry.data + 1] =
                          SetSizeIsSynthesized(SetByteSize(@, entry.size), TRUE)],
                      entries, i + 1)

CalculateSymbolSizes ==
    /\ LET ax == AddressIndexAfterInit
       IN  /\ m_file_addr_to_index_computed' = ax.computed
           /\ m_file_addr_to_index' = ax.entries
           /\ m_symbols' = IF m_symbols # << >>
                           THEN UseRangeSizes(ax.symbols, ax.entries, 1)
                           ELSE m_symbols
    /\ result' = [NoResult EXCEPT !.op = "CalculateSymbolSizes"]
    /\ UNCHANGED nameIndexVars
    /\ UNCHANGED threadVars
    /\ UNCHANGED << m_objfile, handlerVars >>

(***************************************************************************)
(* FindSymbolContainingFileAddress: the position of the symbol returned    *)
(* is left in result.indexes, which is empty for the null pointer.         *)
(***************************************************************************)
\* SymbolAtIndex gives nullptr for a position past the end, and the callers
\* below call a member function through it without a test.  What the null
\* dereference does is not defined: the call faults, or the test on what it
\* read fails and the call goes on.
NullDereference == { "fault", "skip" }

FindSymbolContainingFileAddress(file_addr, on_null) ==
    /\ InitAddressIndexes
    /\ LET ax == AddressIndexAfterInit
           entry == FindEntryThatContains(ax.entries, file_addr)
           is_null == entry # 0 /\ ax.entries[entry].data >= Len(ax.symbols)
           found == /\ entry # 0
                    /\ ~is_null
                    /\ ContainsFileAddress(ax.symbols[ax.entries[entry].data + 1], file_addr)
       IN  result' = [NoResult EXCEPT !.op = "FindSymbolContainingFileAddress",
                                      !.addr = file_addr,
                                      !.fault = is_null /\ on_null = "fault",
                                      !.indexes = IF found THEN << ax.entries[entry].data >>
                                                  ELSE << >>]
    /\ UNCHANGED nameIndexVars
    /\ UNCHANGED threadVars
    /\ UNCHANGED << m_objfile, handlerVars >>

\* FindEntryStartsAt: the first entry whose base is addr, 0 for the null
\* pointer
FindEntryStartsAt(entries, addr) ==
    IF { k \in DOMAIN entries : entries[k].base = addr } = {} THEN 0
    ELSE SetMin({ k \in DOMAIN entries : entries[k].base = addr })

\* Lines 1663-1678.  symbol->GetFileAddress() through the null pointer
\* SymbolAtIndex returns for a position past the end either faults or reads
\* something that is no symbol of the table.
FindSymbolAtFileAddress(file_addr, on_null) ==
    /\ InitAddressIndexes
    /\ LET ax == AddressIndexAfterInit
           entry == FindEntryStartsAt(ax.entries, file_addr)
           is_null == entry # 0 /\ ax.entries[entry].data >= Len(ax.symbols)
           found == /\ entry # 0
                    /\ ~is_null
                    /\ GetFileAddress(ax.symbols[ax.entries[entry].data + 1]) = file_addr
       IN  result' = [NoResult EXCEPT !.op = "FindSymbolAtFileAddress",
                                      !.addr = file_addr,
                                      !.fault = is_null /\ on_null = "fault",
                                      !.indexes = IF found THEN << ax.entries[entry].data >>
                                                  ELSE << >>]
    /\ UNCHANGED nameIndexVars
    /\ UNCHANGED threadVars
    /\ UNCHANGED << m_objfile, handlerVars >>

(***************************************************************************)
(* ForEachSymbolContainingFileAddress.  The callback returns false on its  *)
(* stop_at-th call (never when stop_at is 0); result.indexes lists the     *)
(* positions of the symbols it was called with.                            *)
(***************************************************************************)
RECURSIVE VisitContaining(_, _, _, _, _, _)
VisitContaining(symbols, all_addr_indexes, file_addr, stop_at, on_null, st) ==
    IF all_addr_indexes = << >> THEN st
    ELSE LET idx == Head(all_addr_indexes)
         IN  IF idx >= Len(symbols)
             THEN IF on_null = "fault"
                  THEN [st EXCEPT !.fault = TRUE]
                  ELSE VisitContaining(symbols, Tail(all_addr_indexes), file_addr,
                                       stop_at, on_null, st)
             ELSE IF ContainsFileAddress(symbols[idx + 1], file_addr)
             THEN IF Len(st.visited) + 1 = stop_at
                  THEN [st EXCEPT !.visited = Append(@, idx)]
                  ELSE VisitContaining(symbols, Tail(all_addr_indexes), file_addr,
                                       stop_at, on_null,
                                       [st EXCEPT !.visited = Append(@, idx)])
             ELSE VisitContaining(symbols, Tail(all_addr_indexes), file_addr,
                                  stop_at, on_null, st)

ForEachSymbolContainingFileAddress(file_addr, stop_at, on_null) ==
    /\ InitAddressIndexes
    /\ LET ax == AddressIndexAfterInit
           all_addr_indexes == FindEntryIndexesThatContain(ax.entries, file_addr)
           visit == VisitContaining(ax.symbols, all_addr_indexes, file_addr, stop_at,
                                    on_null, [ visited |-> << >>, fault |-> FALSE ])
       IN  result' = [NoResult EXCEPT !.op = "ForEachSymbolContainingFileAddress",
                                      !.addr = file_addr, !.count = stop_at,
                                      !.fault = visit.fault,
                                      !.indexes = visit.visited]
    /\ UNCHANGED nameIndexVars
    /\ UNCHANGED threadVars
    /\ UNCHANGED << m_objfile, handlerVars >>

(***************************************************************************)
(* SortSymbolIndexesByValue                                                *)
(***************************************************************************)
\* SymbolIndexComparator::operator(): the file addresses (looked up once,
\* then taken from addr_cache), and the symbol ids when they are equal.
SymbolIndexComparator(symbols, index_a, index_b) ==
    LET value_a == GetFileAddress(symbols[index_a + 1])
        value_b == GetFileAddress(symbols[index_b + 1])
    IN  IF value_a = value_b
        THEN symbols[index_a + 1].id < symbols[index_b + 1].id
        ELSE value_a < value_b

\* std::stable_sort with the comparator
RECURSIVE StableInsert(_, _, _)
StableInsert(symbols, sorted, x) ==
    IF sorted = << >> THEN << x >>
    ELSE IF SymbolIndexComparator(symbols, x, Head(sorted)) THEN << x >> \o sorted
         ELSE << Head(sorted) >> \o StableInsert(symbols, Tail(sorted), x)

RECURSIVE StableSort(_, _)
StableSort(symbols, indexes) ==
    IF indexes = << >> THEN << >>
    ELSE StableInsert(symbols, StableSort(symbols, SubSeq(indexes, 1, Len(indexes) - 1)),
                      indexes[Len(indexes)])

\* The vector as the call leaves it.  std::unique's return value (the new
\* end) is not used: nothing is erased.
SortedSymbolIndexes(symbols, indexes, remove_duplicates) ==
    IF Len(indexes) <= 1 THEN indexes
    ELSE IF remove_duplicates
         THEN StdUnique(StableSort(symbols, indexes)).vector
         ELSE StableSort(symbols, indexes)

SortSymbolIndexesByValue(indexes, remove_duplicates) ==
    /\ result' = [NoResult EXCEPT !.op = "SortSymbolIndexesByValue",
                                  !.input = indexes, !.flag = remove_duplicates,
                                  !.indexes = SortedSymbolIndexes(m_symbols, indexes,
                                                                  remove_duplicates)]
    /\ UNCHANGED << m_symbols, m_file_addr_to_index, m_file_addr_to_index_computed >>
    /\ UNCHANGED nameIndexVars
    /\ UNCHANGED threadVars
    /\ UNCHANGED << m_objfile, handlerVars >>

(***************************************************************************)
(* FindFunctionSymbols and GetParent a statement at a time, as a thread    *)
(* runs them next to other threads.  thread[t].pc is the statement thread  *)
(* t executes next.                                                        *)
(***************************************************************************)
\* The "if (name_type_mask & ...)" block entered after the block `after`
BranchOrder == << "Base", "Method", "Selector" >>

NextBranch(name_type_mask, after) ==
    LET later == { k \in 1 .. 3 : k > after /\ BranchOrder[k] \in name_type_mask }
    IN  IF later = {} THEN "Return" ELSE BranchOrder[SetMin(later)]


tableVars == << m_symbols, m_file_addr_to_index, m_file_addr_to_index_computed,
               m_objfile, handlerVars >>

\* Lines 1744-1761: entry; with Base or Full in the mask the first statement
\* is the call of FindAllSymbolsWithNameAndType
FindFunctionSymbols_Enter(t, name, name_type_mask) ==
    /\ thread[t].pc = "idle"
    /\ thread' = [thread EXCEPT ![t] =
           [IdleThread EXCEPT !.name = name, !.name_type_mask = name_type_mask,
                              !.pc = IF name_type_mask \cap {"Base", "Full"} # {}
                                     THEN "FindAllSymbolsWithNameAndType"
                                     ELSE NextBranch(name_type_mask, 0)]]
    /\ UNCHANGED << m_mutex, result >>
    /\ UNCHANGED tableVars
    /\ UNCHANGED nameIndexVars

\* FindAllSymbolsWithNameAndType: Mutex::Locker, then the lazy build
FindAllSymbolsWithNameAndType_Lock(t) ==
    /\ thread[t].pc = "FindAllSymbolsWithNameAndType"
    /\ CanLock(t)
    /\ m_mutex' = Lock(t)
    /\ thread' = [thread EXCEPT ![t].pc = "FindAllSymbolsWithNameAndType_Init"]
    /\ UNCHANGED result
    /\ UNCHANGED tableVars
    /\ UNCHANGED nameIndexVars

\* "if (!m_name_indexes_computed) InitNameIndexes();"
LazyInit(t, then) ==
    /\ thread' = IF m_name_indexes_computed
                 THEN [thread EXCEPT ![t].pc = then]
                 ELSE [thread EXCEPT ![t].pc = "InitNameIndexes_Enter",
                                     ![t].return_pc = then]
    /\ UNCHANGED nameIndexVars

FindAllSymbolsWithNameAndType_Init(t) ==
    /\ thread[t].pc = "FindAllSymbolsWithNameAndType_Init"
    /\ LazyInit(t, "AppendSymbolIndexesWithNameAndType")
    /\ UNCHANGED << m_mutex, result >>
    /\ UNCHANGED tableVars

\* Line 871: InitNameIndexes tests the flag again ...
InitNameIndexes_Enter(t) ==
    /\ thread[t].pc = "InitNameIndexes_Enter"
    /\ thread' = IF m_name_indexes_computed
                 THEN [thread EXCEPT ![t].pc = thread[t].return_pc,
                                     ![t].return_pc = "idle"]
                 ELSE [thread EXCEPT ![t].pc = "InitNameIndexes_SetFlag"]
    /\ UNCHANGED nameIndexVars
    /\ UNCHANGED << m_mutex, result >>
    /\ UNCHANGED tableVars

\* ... and line 873 sets it, in a statement of its own: a thread that runs
\* the unlocked blocks of FindFunctionSymbols can test the flag between the
\* two.
InitNameIndexes_SetFlag(t) ==
    /\ thread[t].pc = "InitNameIndexes_SetFlag"
    /\ m_name_indexes_computed' = TRUE
    /\ thread' = [thread EXCEPT ![t].pc = "InitNameIndexes"]
    /\ UNCHANGED << m_name_to_index, m_basename_to_index, m_method_to_index,
                    m_selector_to_index >>
    /\ UNCHANGED << m_mutex, result >>
    /\ UNCHANGED tableVars

\* The rest of InitNameIndexes: the pass over the symbols and the sorts
InitNameIndexes_Build(t) ==
    /\ thread[t].pc = "InitNameIndexes"
    /\ LET ix == BuildNameIndexes(NameBuildStart, m_symbols)
       IN  /\ m_name_to_index' = ix.all
           /\ m_basename_to_index' = ix.basenames
           /\ m_method_to_index' = ix.methods
           /\ m_selector_to_index' = ix.selectors
    /\ thread' = [thread EXCEPT ![t].pc = thread[t].return_pc, ![t].return_pc = "idle"]
    /\ UNCHANGED << m_name_indexes_computed, m_mutex, result >>
    /\ UNCHANGED tableVars

\* AppendSymbolIndexesWithNameAndType takes the mutex its caller holds
AppendSymbolIndexesWithNameAndType_Lock(t) ==
    /\ thread[t].pc = "AppendSymbolIndexesWithNameAndType"
    /\ CanLock(t)
    /\ m_mutex' = Lock(t)
    /\ thread' = [thread EXCEPT ![t].pc = "AppendSymbolIndexesWithName"]
    /\ UNCHANGED result
    /\ UNCHANGED tableVars
    /\ UNCHANGED nameIndexVars

\* ... looks the name up (eSymbolTypeAny: nothing is erased) and returns
AppendSymbolIndexesWithNameAndType_Return(t) ==
    /\ thread[t].pc = "AppendSymbolIndexesWithName"
    /\ thread' = [thread EXCEPT
           ![t].temp_symbol_indexes = IF thread[t].name # ""
                                      THEN GetValues(m_name_to_index, thread[t].name)
                                      ELSE << >>,
           ![t].pc = "FindAllSymbolsWithNameAndType_Return"]
    /\ m_mutex' = Unlock(t)
    /\ UNCHANGED result
    /\ UNCHANGED tableVars
    /\ UNCHANGED nameIndexVars

\* FindAllSymbolsWithNameAndType returns: its locker lets the mutex go
FindAllSymbolsWithNameAndType_Return(t) ==
    /\ thread[t].pc = "FindAllSymbolsWithNameAndType_Return"
    /\ m_mutex' = Unlock(t)
    /\ thread' = [thread EXCEPT
           ![t].pc = IF thread[t].temp_symbol_indexes # << >>
                     THEN "Filter_Lock"
                     ELSE NextBranch(thread[t].name_type_mask, 0)]
    /\ UNCHANGED result
    /\ UNCHANGED tableVars
    /\ UNCHANGED nameIndexVars

\* Lines 1764-1784: the mutex again, for the loop that keeps the functions
FindFunctionSymbols_FilterLock(t) ==
    /\ thread[t].pc = "Filter_Lock"
    /\ CanLock(t)
    /\ m_mutex' = Lock(t)
    /\ thread' = [thread EXCEPT ![t].pc = "Filter"]
    /\ UNCHANGED result
    /\ UNCHANGED tableVars
    /\ UNCHANGED nameIndexVars

FindFunctionSymbols_Filter(t) ==
    /\ thread[t].pc = "Filter"
    /\ thread' = [thread EXCEPT
           ![t].symbol_indexes = KeepFunctionTypes(thread[t].temp_symbol_indexes),
           ![t].temp_symbol_indexes = << >>,
           ![t].pc = NextBranch(thread[t].name_type_mask, 0)]
    /\ m_mutex' = Unlock(t)
    /\ UNCHANGED result
    /\ UNCHANGED tableVars
    /\ UNCHANGED nameIndexVars

\* Lines 1787-1838: the Base, Method and Selector blocks.  None of them
\* takes the mutex: each tests the flag, builds if it is clear ...
FindFunctionSymbols_BranchInit(t) ==
    /\ thread[t].pc \in Range(BranchOrder)
    /\ LazyInit(t, thread[t].pc \o "_read")
    /\ UNCHANGED << m_mutex, result >>
    /\ UNCHANGED tableVars

\* ... and reads its index
BranchIndex(pc) ==
    IF pc = "Base_read" THEN m_basename_to_index
    ELSE IF pc = "Method_read" THEN m_method_to_index
    ELSE m_selector_to_index

FindFunctionSymbols_BranchRead(t) ==
    /\ thread[t].pc \in { "Base_read", "Method_read", "Selector_read" }
    /\ LET k == CHOOSE n \in 1 .. 3 : BranchOrder[n] \o "_read" = thread[t].pc
       IN  thread' = [thread EXCEPT
               ![t].symbol_indexes =
                   thread[t].symbol_indexes
                       \o GetValues(BranchIndex(thread[t].pc), thread[t].name),
               ![t].pc = NextBranch(thread[t].name_type_mask, k)]
    /\ UNCHANGED << m_mutex, result >>
    /\ UNCHANGED tableVars
    /\ UNCHANGED nameIndexVars

\* Lines 1840-1848: sort, unique, erase, and the symbol contexts
FindFunctionSymbols_Return(t) ==
    /\ thread[t].pc = "Return"
    /\ LET unique == StdUnique(SortAscending(thread[t].symbol_indexes))
           symbol_indexes == SubSeq(unique.vector, 1, unique.new_end)
       IN  result' = [NoResult EXCEPT !.op = "FindFunctionSymbols",
                                      !.name = thread[t].name,
                                      !.mask = thread[t].name_type_mask,
                                      !.indexes = symbol_indexes,
                                      !.count = Len(symbol_indexes)]
    /\ thread' = [thread EXCEPT ![t] = IdleThread]
    /\ UNCHANGED m_mutex
    /\ UNCHANGED tableVars
    /\ UNCHANGED nameIndexVars

\* GetParent(child_symbol): the position of the parent, UINT32_MAX for NULL
RECURSIVE ParentScan(_, _, _)
ParentScan(symbols, child_idx, idx) ==
    IF idx = UINT32_MAX THEN UINT32_MAX
    ELSE LET sibling_idx == symbols[idx + 1].sibling_idx
         IN  IF sibling_idx # UINT32_MAX /\ sibling_idx > child_idx
             THEN idx
             ELSE ParentScan(symbols, child_idx, idx - 1)

ParentIndexFromChild(symbols, child_idx) ==
    IF child_idx # UINT32_MAX /\ child_idx > 0
    THEN ParentScan(symbols, child_idx, child_idx)
    ELSE UINT32_MAX

ParentIndex(symbols, child_idx) ==
    IF child_idx # UINT32_MAX /\ child_idx > 0
    THEN ParentScan(symbols, child_idx, child_idx - 1)
    ELSE UINT32_MAX

GetParent_Enter(t, child_idx) ==
    /\ thread[t].pc = "idle"
    /\ thread' = [thread EXCEPT ![t] = [IdleThread EXCEPT !.pc = "GetParent",
                                                          !.child_idx = child_idx]]
    /\ UNCHANGED << m_mutex, result >>
    /\ UNCHANGED tableVars
    /\ UNCHANGED nameIndexVars

GetParent_Return(t) ==
    /\ thread[t].pc = "GetParent"
    /\ result' = [NoResult EXCEPT !.op = "GetParent",
                                  !.input = << thread[t].child_idx >>,
                                  !.count = ParentIndex(m_symbols, thread[t].child_idx)]
    /\ thread' = [thread EXCEPT ![t] = IdleThread]
    /\ UNCHANGED m_mutex
    /\ UNCHANGED tableVars
    /\ UNCHANGED nameIndexVars

(***************************************************************************)
(* The claims about the name indexes.                                      *)
(***************************************************************************)
Positions == 0 .. Len(m_symbols) - 1

\* The names a symbol is known by: its mangled and demangled name, both
\* without linker annotations when it has them, and its Objective-C name
\* without the category.
NamesOf(symbol) ==
    ( { symbol.mangled, symbol.demangled }
      \cup ( IF symbol.annotated
             THEN { StripLinkerSymbolAnnotations(symbol.mangled),
                    StripLinkerSymbolAnnotations(symbol.demangled) }
             ELSE {} )
      \cup { ObjCMethodName(symbol.demangled).no_category } ) \ { "" }

\* How many entries InitNameIndexes files in ALL for one symbol.
AllEntriesOf(symbol) ==
    IF symbol.type = "Trampoline" THEN 0
    ELSE (IF symbol.mangled = "" THEN 0 ELSE IF symbol.annotated THEN 2 ELSE 1)
         + (IF symbol.demangled = "" THEN 0 ELSE IF symbol.annotated THEN 2 ELSE 1)
         + (IF ObjCMethodName(symbol.demangled).no_category = "" THEN 0 ELSE 1)

\* C1: after the name indexes are built, looking a name up in ALL gives the
\* position of every non-trampoline symbol whose mangled name it is, gives
\* only positions of symbols that carry that name, and ALL holds one entry
\* for every name the build filed: none was dropped.
C1_ExactNameLookup ==
    (result.op = "AppendSymbolIndexesWithName" /\ result.name # "") =>
        /\ \A i \in Positions :
               ( m_symbols[i + 1].type # "Trampoline"
                 /\ m_symbols[i + 1].mangled = result.name )
               => i \in Range(result.indexes)
        /\ \A i \in Range(result.indexes) :
               i \in Positions /\ result.name \in NamesOf(m_symbols[i + 1])
        /\ result.count = Len(result.indexes)
        /\ Len(m_name_to_index) = SeqSum([k \in DOMAIN m_symbols |-> AllEntriesOf(m_symbols[k])])

\* C2: AddSymbol puts the record at the end, returns the position it got
\* (the number of symbols before the call), moves no earlier symbol, and
\* leaves both "computed" flags false.
C2_AddSymbolAppends ==
    [][ (result'.op = "AddSymbol" /\ m_symbols' # m_symbols) =>
            /\ Len(m_symbols') = Len(m_symbols) + 1
            /\ m_symbols'[Len(m_symbols')] = result'.input[1]
            /\ result'.count = Len(m_symbols)
            /\ SubSeq(m_symbols', 1, Len(m_symbols)) = m_symbols
            /\ ~m_name_indexes_computed'
            /\ ~m_file_addr_to_index_computed' ]_vars

\* A symbol was added to a table whose name indexes had been built.
C2_Witness ==
    /\ result.op = "AddSymbol"
    /\ result.count = 1
    /\ Len(m_symbols) = 2
    /\ m_method_to_index # << >>
    /\ ~m_name_indexes_computed

\* The four name indexes a fresh table holding these symbols builds.
FreshNameIndexes(symbols) ==
    BuildNameIndexes([ all |-> << >>, basenames |-> << >>, methods |-> << >>,
                       selectors |-> << >>, class_contexts |-> {}, deferred |-> << >> ],
                     symbols)

\* C9: FindFunctionSymbols gives the union of the strategies its mask
\* selects, each position once, in ascending order, and returns their number.
FullNameMatches(name) ==
    { i \in Positions : /\ Entry(name, i) \in Range(m_name_to_index)
                        /\ m_symbols[i + 1].type \in {"Code", "Resolver", "ReExported"} }
IndexMatches(map, name) == { e.value : e \in { x \in Range(map) : x.cstring = name } }

SelectedMatches(name, mask) ==
    (IF mask \cap {"Base", "Full"} # {} THEN FullNameMatches(name) ELSE {})
    \cup (IF "Base" \in mask THEN IndexMatches(m_basename_to_index, name) ELSE {})
    \cup (IF "Method" \in mask THEN IndexMatches(m_method_to_index, name) ELSE {})
    \cup (IF "Selector" \in mask THEN IndexMatches(m_selector_to_index, name) ELSE {})

C9_FindFunctionSymbolsIsUnion ==
    result.op = "FindFunctionSymbols" =>
        /\ Range(result.indexes) = SelectedMatches(result.name, result.mask)
        /\ \A k \in 1 .. Len(result.indexes) - 1 : result.indexes[k] < result.indexes[k + 1]
        /\ result.count = Cardinality(SelectedMatches(result.name, result.mask))

\* One symbol is both a BASENAMES and a METHODS match and comes back once,
\* next to a symbol only the full-name strategy finds.
C9_Witness ==
    /\ result.op = "FindFunctionSymbols"
    /\ result.name = "foo"
    /\ result.mask = {"Base", "Method"}
    /\ IndexMatches(m_basename_to_index, "foo") = {0}
    /\ IndexMatches(m_method_to_index, "foo") = {0}
    /\ FullNameMatches("foo") = {1}
    /\ result.indexes = << 0, 1 >>

\* C11: a call that runs InitNameIndexes on a table whose name indexes are
\* marked computed (an earlier run built them and nothing cleared the flag
\* since) leaves ALL, BASENAMES, METHODS and SELECTORS as they were.
C11_SecondInitIsNoOp ==
    [][ ( /\ m_name_indexes_computed
          /\ result'.op \in { "AppendSymbolIndexesWithName", "FindFunctionSymbols" }
          /\ result'.name # "" /\ (result'.op = "FindFunctionSymbols" => result'.mask # {}) ) =>
            /\ m_name_to_index' = m_name_to_index
            /\ m_basename_to_index' = m_basename_to_index
            /\ m_method_to_index' = m_method_to_index
            /\ m_selector_to_index' = m_selector_to_index
            /\ m_name_indexes_computed' ]_vars

\* A lookup ran InitNameIndexes on a table of two symbols whose four
\* indexes an earlier lookup had built.
C11_Witness ==
    /\ result.op = "FindFunctionSymbols"
    /\ result.init_skipped
    /\ Len(m_symbols) = 2
    /\ m_name_to_index # << >>
    /\ m_method_to_index # << >>
    /\ m_selector_to_index # << >>
    /\ m_name_indexes_computed


(***************************************************************************)
(* The symbol table under address queries.                                 *)
(***************************************************************************)
QueryAddrs == { 3, 4, 6, 7, 8 }
StopAts == { 0, 1 }

NextAddr ==
    \/ \E symbol \in AddrSymbols :
           /\ Len(m_symbols) < MaxAddrSymbols
           /\ AddSymbol([symbol EXCEPT !.id = Len(m_symbols)])
    \/ \E count \in 0 .. MaxAddrSymbols : Reserve(count)
    \/ \E count \in 0 .. MaxAddrSymbols : Resize(count)
    \/ /\ Len(m_file_addr_to_index) <= MaxAddrSymbols
       /\ SectionFileAddressesChanged
    \/ \E file_addr \in QueryAddrs, on_null \in NullDereference :
           FindSymbolContainingFileAddress(file_addr, on_null)
    \/ \E file_addr \in QueryAddrs, stop_at \in StopAts, on_null \in NullDereference :
           ForEachSymbolContainingFileAddress(file_addr, stop_at, on_null)
    \/ CalculateSymbolSizes

SpecAddr == Init /\ [][NextAddr]_vars


(***************************************************************************)
(* The claims about the address index.                                     *)
(***************************************************************************)
LeafSections == Range(AddSectionsToRangeMap(m_objfile.section_list, << >>))

\* C3: whenever an index is marked computed, its contents are those a
\* fresh table holding the same symbols in the same order builds: nothing
\* of a build made before an insertion is left.
C3_IndexesAsBuiltFromScratch ==
    /\ m_name_indexes_computed =>
           LET fresh == FreshNameIndexes(m_symbols)
           IN  /\ m_name_to_index = fresh.all
               /\ m_basename_to_index = fresh.basenames
               /\ m_method_to_index = fresh.methods
               /\ m_selector_to_index = fresh.selectors
    /\ m_file_addr_to_index_computed =>
           m_file_addr_to_index = BuildAddressIndex(<< >>, m_symbols).entries

\* C4: once the address index is built, a symbol whose size was synthesized
\* ends no later than its section and no later than the next entry with a
\* greater base address.
C4_SynthesizedSizeBounded ==
    m_file_addr_to_index_computed =>
        \A i \in Positions :
            LET symbol == m_symbols[i + 1]
            IN  (symbol.value_is_address /\ symbol.size_is_synthesized) =>
                    /\ \A section \in LeafSections :
                           RangeContains(section, symbol.file_addr) =>
                               symbol.file_addr + symbol.byte_size
                                   <= section.base + section.size
                    /\ \A e \in Range(m_file_addr_to_index) :
                           e.base > symbol.file_addr =>
                               symbol.file_addr + symbol.byte_size <= e.base

\* C5: no step changes the size of a symbol whose size is authoritative
\* (valid and not synthesized, a reported size of zero included) or marks
\* it synthesized.
C5_AuthoritativeSizeKept ==
    [][ \A i \in Positions :
            ( /\ i < Len(m_symbols')
              /\ m_symbols[i + 1].size_is_valid
              /\ ~m_symbols[i + 1].size_is_synthesized ) =>
                /\ m_symbols'[i + 1].byte_size = m_symbols[i + 1].byte_size
                /\ ~m_symbols'[i + 1].size_is_synthesized ]_vars

\* C6: a symbol whose range holds the address asked for is the one
\* FindSymbolContainingFileAddress returns when no other symbol's range holds
\* it, and is among those ForEachSymbolContainingFileAddress hands to a
\* callback that never returns false.
Containing(file_addr) ==
    { i \in Positions : /\ m_symbols[i + 1].value_is_address
                        /\ m_symbols[i + 1].file_addr <= file_addr
                        /\ file_addr < m_symbols[i + 1].file_addr + m_symbols[i + 1].byte_size }

C6_AddressContainment ==
    /\ result.op = "FindSymbolContainingFileAddress" =>
           \A i \in Containing(result.addr) :
               Containing(result.addr) = {i} => result.indexes = << i >>
    /\ (result.op = "ForEachSymbolContainingFileAddress" /\ result.count = 0) =>
           Containing(result.addr) \subseteq Range(result.indexes)

(***************************************************************************)
(* SortSymbolIndexesByValue on tables of three symbols whose ids are not   *)
(* in the order of their positions and whose addresses repeat.             *)
(***************************************************************************)
MaxIndexes == 4

SortIds == { << 0, 1, 2 >>, << 1, 0, 2 >>, << 2, 0, 1 >>, << 2, 1, 0 >> }
SortAddrs == { << 4, 4, 4 >>, << 6, 4, 4 >>, << 4, 6, 4 >>, << 6, 6, 4 >> }

SortTable(ids, addrs) ==
    [ k \in 1 .. 3 |-> [ AddrSymbol(TRUE, addrs[k], 1, TRUE) EXCEPT !.id = ids[k] ] ]

RECURSIVE SeqsUpTo(_, _)
SeqsUpTo(S, n) ==
    IF n = 0 THEN { << >> }
    ELSE LET shorter == SeqsUpTo(S, n - 1)
         IN  shorter \cup { Append(q, x) : q \in shorter, x \in S }

InitSort ==
    /\ m_symbols \in { SortTable(ids, addrs) : ids \in SortIds, addrs \in SortAddrs }
    /\ m_name_to_index = << >>
    /\ m_basename_to_index = << >>
    /\ m_method_to_index = << >>
    /\ m_selector_to_index = << >>
    /\ m_file_addr_to_index = << >>
    /\ m_name_indexes_computed = FALSE
    /\ m_file_addr_to_index_computed = FALSE
    /\ result = NoResult
    /\ m_objfile = ObjectFile
    /\ NewHandler({ "AppleGetQueuesHandler" })
    /\ m_mutex = Unlocked
    /\ thread = [ t \in Threads |-> IdleThread ]

NextSort ==
    \E indexes \in SeqsUpTo(Positions, MaxIndexes), remove_duplicates \in BOOLEAN :
        SortSymbolIndexesByValue(indexes, remove_duplicates)

SpecSort == InitSort /\ [][NextSort]_vars

(***************************************************************************)
(* The claims about SortSymbolIndexesByValue.                              *)
(***************************************************************************)
Occurrences(q, x) == Cardinality({ k \in DOMAIN q : q[k] = x })

\* C7: the list SortSymbolIndexesByValue leaves is a permutation of the one
\* it was given, in ascending order of file address and, where addresses
\* are equal, of symbol id; sorting that list again changes nothing.
C7_SortedPermutation ==
    result.op = "SortSymbolIndexesByValue" =>
        /\ \A x \in Positions : Occurrences(result.indexes, x) = Occurrences(result.input, x)
        /\ \A k \in 1 .. Len(result.indexes) - 1 :
               LET a == m_symbols[result.indexes[k] + 1]
                   b == m_symbols[result.indexes[k + 1] + 1]
               IN  \/ a.file_addr < b.file_addr
                   \/ (a.file_addr = b.file_addr /\ a.id <= b.id)
        /\ SortedSymbolIndexes(m_symbols, result.indexes, result.flag) = result.indexes

\* C8: with remove_duplicates set and two or more entries given, no
\* position is twice in the list left, every position given is in it, and
\* its length is the number of distinct positions given.
C8_DuplicatesRemoved ==
    ( result.op = "SortSymbolIndexesByValue" /\ result.flag /\ Len(result.input) >= 2 ) =>
        /\ \A x \in Positions : Occurrences(result.indexes, x) <= 1
        /\ Range(result.indexes) = Range(result.input)
        /\ Len(result.indexes) = Cardinality(Range(result.input))


(***************************************************************************)
(* Two threads querying a filled table whose indexes are not built yet.    *)
(***************************************************************************)
ThreadTable ==
    << [ Symbol("Code", "_ZN1A3fooEv", "A::foo()", FALSE) EXCEPT !.id = 0, !.sibling_idx = 2 ],
       [ Symbol("Code", "", "-[C(Cat) foo]", FALSE) EXCEPT !.id = 1 ],
       [ Symbol("Code", "", "foo", FALSE) EXCEPT !.id = 2 ] >>

ThreadMasks == { { "Full" }, { "Method" }, { "Base", "Selector" } }

InitThreads ==
    /\ m_symbols = ThreadTable
    /\ m_name_to_index = << >>
    /\ m_basename_to_index = << >>
    /\ m_method_to_index = << >>
    /\ m_selector_to_index = << >>
    /\ m_file_addr_to_index = << >>
    /\ m_name_indexes_computed = FALSE
    /\ m_file_addr_to_index_computed = FALSE
    /\ result = NoResult
    /\ m_objfile = ObjectFile
    /\ NewHandler({ "AppleGetQueuesHandler" })
    /\ m_mutex = Unlocked
    /\ thread = [ t \in Threads |-> IdleThread ]

NextThreads ==
    \E t \in Threads :
        \/ \E mask \in ThreadMasks : FindFunctionSymbols_Enter(t, "foo", mask)
        \/ FindAllSymbolsWithNameAndType_Lock(t)
        \/ FindAllSymbolsWithNameAndType_Init(t)
        \/ InitNameIndexes_Enter(t)
        \/ InitNameIndexes_SetFlag(t)
        \/ InitNameIndexes_Build(t)
        \/ AppendSymbolIndexesWithNameAndType_Lock(t)
        \/ AppendSymbolIndexesWithNameAndType_Return(t)
        \/ FindAllSymbolsWithNameAndType_Return(t)
        \/ FindFunctionSymbols_FilterLock(t)
        \/ FindFunctionSymbols_Filter(t)
        \/ FindFunctionSymbols_BranchInit(t)
        \/ FindFunctionSymbols_BranchRead(t)
        \/ FindFunctionSymbols_Return(t)
        \/ \E child_idx \in Positions \cup { UINT32_MAX } : GetParent_Enter(t, child_idx)
        \/ GetParent_Return(t)

SpecThreads == InitThreads /\ [][NextThreads]_vars

(***************************************************************************)
(* The claim about the mutex.                                              *)
(***************************************************************************)
\* The statements that read or write the table's members
TableCode ==
    { "FindAllSymbolsWithNameAndType_Init", "InitNameIndexes_Enter",
      "InitNameIndexes_SetFlag", "InitNameIndexes",
      "AppendSymbolIndexesWithNameAndType", "AppendSymbolIndexesWithName",
      "FindAllSymbolsWithNameAndType_Return", "Filter",
      "Base", "Base_read", "Method", "Method_read", "Selector", "Selector_read",
      "GetParent" }

InTableCode(t) == thread[t].pc \in TableCode

\* C10: a thread that executes a query's statements on the table, the lazy
\* index build included, owns m_mutex, so no two threads execute such
\* statements at the same time.
C10_QueriesHoldMutex ==
    /\ \A t \in Threads : InTableCode(t) => m_mutex.owner = t
    /\ \A t, u \in Threads : (t # u /\ InTableCode(t)) => ~InTableCode(u)

(***************************************************************************)
(* The table of three symbols: A::foo() at 0x1000 and A::bar() at 0x1010,  *)
(* both with no size, the variable g_var at 0x2000 with size 0x100, and    *)
(* one section [0x1000, 0x1020).  The table is queried, never changed.     *)
(***************************************************************************)
ScenarioTable ==
    << [ Symbol("Code", "_ZN1A3fooEv", "A::foo()", FALSE) EXCEPT
             !.id = 1, !.value_is_address = TRUE, !.file_addr = 4096 ],
       [ Symbol("Code", "_ZN1A3barEv", "A::bar()", FALSE) EXCEPT
             !.id = 2, !.value_is_address = TRUE, !.file_addr = 4112 ],
       [ Symbol("Data", "", "g_var", FALSE) EXCEPT
             !.id = 3, !.value_is_address = TRUE, !.file_addr = 8192,
             !.byte_size = 256, !.size_is_valid = TRUE ] >>

ScenarioObjectFile ==
    [ section_list |-> << [file_addr |-> 4096, byte_size |-> 32, children |-> << >>] >> ]

ScenarioNames == { "foo", "bar", "g_var", "_ZN1A3fooEv", "A::bar()" }
ScenarioFunctionNames == { "foo", "bar", "g_var" }
ScenarioAddrs == { 4095, 4096, 4111, 4112, 4127, 4128, 8192, 8447, 8448 }

InitScenario ==
    /\ m_symbols = ScenarioTable
    /\ m_name_to_index = << >>
    /\ m_basename_to_index = << >>
    /\ m_method_to_index = << >>
    /\ m_selector_to_index = << >>
    /\ m_file_addr_to_index = << >>
    /\ m_name_indexes_computed = FALSE
    /\ m_file_addr_to_index_computed = FALSE
    /\ result = NoResult
    /\ m_objfile = ScenarioObjectFile
    /\ NewHandler({ "AppleGetQueuesHandler" })
    /\ m_mutex = Unlocked
    /\ thread = [ t \in Threads |-> IdleThread ]

NextScenario ==
    \/ \E name \in ScenarioNames : AppendSymbolIndexesWithName(name)
    \/ \E name \in ScenarioFunctionNames, mask \in FunctionMasks :
           FindFunctionSymbols(name, mask)
    \/ \E file_addr \in ScenarioAddrs, on_null \in NullDereference :
           FindSymbolContainingFileAddress(file_addr, on_null)
    \/ \E file_addr \in ScenarioAddrs, stop_at \in StopAts, on_null \in NullDereference :
           ForEachSymbolContainingFileAddress(file_addr, stop_at, on_null)
    \/ CalculateSymbolSizes

SpecScenario == InitScenario /\ [][NextScenario]_vars

C13_ScenarioFindFoo ==
    ( /\ result.op = "FindFunctionSymbols"
      /\ result.name = "foo"
      /\ result.mask = { "Method" } ) =>
        /\ result.count = 1
        /\ Len(result.indexes) = 1
        /\ m_symbols[result.indexes[1] + 1].id = 1

\* The call was made, on a table whose address index is built as well.
C13_Witness ==
    /\ result.op = "FindFunctionSymbols"
    /\ result.name = "foo"
    /\ result.mask = { "Method" }
    /\ result.indexes = << 0 >>
    /\ m_symbols = [ ScenarioTable EXCEPT
                         ![1] = SetSizeIsSynthesized(SetByteSize(@, 16), TRUE),
                         ![2] = SetSizeIsSynthesized(SetByteSize(@, 16), TRUE) ]

(***************************************************************************)
(* Access by position, by id and to the parent.  A Symbol * is the         *)
(* position it points to; the null pointer leaves result.indexes empty.    *)
(***************************************************************************)
MaxAccessSymbols == 3

\* SymbolAtIndex(idx): the pointer returned
SymbolAtIndexUnchecked(idx) ==
    /\ result' = [NoResult EXCEPT !.op = "SymbolAtIndex", !.count = idx,
                                  !.indexes = IF idx <= Len(m_symbols)
                                              THEN << idx >> ELSE << >>]
    /\ UNCHANGED << m_symbols, m_file_addr_to_index, m_file_addr_to_index_computed >>
    /\ UNCHANGED nameIndexVars
    /\ UNCHANGED threadVars
    /\ UNCHANGED << m_objfile, handlerVars >>

SymbolAtIndex(idx) ==
    /\ result' = [NoResult EXCEPT !.op = "SymbolAtIndex", !.count = idx,
                                  !.indexes = IF idx < Len(m_symbols)
                                              THEN << idx >> ELSE << >>]
    /\ UNCHANGED << m_symbols, m_file_addr_to_index, m_file_addr_to_index_computed >>
    /\ UNCHANGED nameIndexVars
    /\ UNCHANGED threadVars
    /\ UNCHANGED << m_objfile, handlerVars >>

\* GetIndexForSymbol(symbol): symbol is the distance of the pointer from
\* &m_symbols[0], in symbols; a pointer to something else is before the
\* first symbol or past the last.
GetIndexForSymbol(symbol) ==
    IF m_symbols # << >> /\ symbol >= 0 /\ symbol < Len(m_symbols)
    THEN symbol
    ELSE UINT32_MAX

\* GetParent(child_symbol) as one call
GetParent(child_symbol) ==
    /\ LET parent == ParentIndex(m_symbols, GetIndexForSymbol(child_symbol))
       IN  result' = [NoResult EXCEPT !.op = "GetParent", !.input = << child_symbol >>,
                                      !.indexes = IF parent = UINT32_MAX THEN << >>
                                                  ELSE << parent >>]
    /\ UNCHANGED << m_symbols, m_file_addr_to_index, m_file_addr_to_index_computed >>
    /\ UNCHANGED nameIndexVars
    /\ UNCHANGED threadVars
    /\ UNCHANGED << m_objfile, handlerVars >>

\* CompareSymbolID(key, p)
CompareSymbolID(match_uid, symbol_uid) ==
    IF match_uid < symbol_uid THEN -1
    ELSE IF match_uid > symbol_uid THEN 1
    ELSE 0

\* ::bsearch over the nmemb symbols from base: the position found,
\* UINT32_MAX for NULL
RECURSIVE BSearch(_, _, _, _)
BSearch(key, symbols, lo, hi) ==
    IF lo >= hi THEN UINT32_MAX
    ELSE LET mid == (lo + hi) \div 2
             comparison == CompareSymbolID(key, symbols[mid + 1].id)
         IN  IF comparison < 0 THEN BSearch(key, symbols, lo, mid)
             ELSE IF comparison > 0 THEN BSearch(key, symbols, mid + 1, hi)
             ELSE mid

\* "&m_symbols[0]" of an empty vector: operator[] has no element to refer
\* to, the behaviour is not defined.  The build gives the vector's data
\* pointer and bsearch, told of no member, returns NULL; a build whose
\* operator[] checks its argument stops the process.
EmptySubscript == { "null", "fault" }

FindSymbolByID(symbol_uid, on_empty) ==
    /\ LET symbol == BSearch(symbol_uid, m_symbols, 0, Len(m_symbols))
       IN  result' = [NoResult EXCEPT !.op = "FindSymbolByID", !.count = symbol_uid,
                                      !.fault = m_symbols = << >> /\ on_empty = "fault",
                                      !.indexes = IF symbol = UINT32_MAX THEN << >>
                                                  ELSE << symbol >>]
    /\ UNCHANGED << m_symbols, m_file_addr_to_index, m_file_addr_to_index_computed >>
    /\ UNCHANGED nameIndexVars
    /\ UNCHANGED threadVars
    /\ UNCHANGED << m_objfile, handlerVars >>

\* The symbols an object file hands to AddSymbol here: ids in and out of
\* order, sibling indexes unset or naming a position.
AccessIds == { 1, 2, 3 }
SiblingIndexes == { UINT32_MAX, 2, 3 }
AccessSymbols ==
    { [ Symbol("Code", "", "", FALSE) EXCEPT !.id = id, !.sibling_idx = sibling_idx ] :
          id \in AccessIds, sibling_idx \in SiblingIndexes }
ChildPointers == { -2 } \cup (0 .. MaxAccessSymbols)

NextAccess ==
    \/ \E symbol \in AccessSymbols :
           /\ Len(m_symbols) < MaxAccessSymbols
           /\ AddSymbol(symbol)
    \/ \E idx \in 0 .. MaxAccessSymbols + 1 : SymbolAtIndex(idx)
    \/ \E child_symbol \in ChildPointers : GetParent(child_symbol)
    \/ \E symbol_uid \in 0 .. 4, on_empty \in EmptySubscript :
           FindSymbolByID(symbol_uid, on_empty)

SpecAccess == Init /\ [][NextAccess]_vars

\* The earlier positions whose sibling index is set and past the child
ParentCandidates(child_idx) ==
    { j \in 0 .. child_idx - 1 :
          /\ m_symbols[j + 1].sibling_idx # UINT32_MAX
          /\ m_symbols[j + 1].sibling_idx > child_idx }

\* C14: GetParent gives the highest earlier position whose sibling index is
\* set and greater than the child's position, and null when there is none,
\* when the child is at position 0 and when the pointer is to no symbol of
\* the table; the scan ends for every child.
C14_GetParentNearestEnclosing ==
    result.op = "GetParent" =>
        LET child == result.input[1]
        IN  IF child \in Positions /\ ParentCandidates(child) # {}
            THEN /\ Len(result.indexes) = 1
                 /\ result.indexes[1] \in ParentCandidates(child)
                 /\ \A j \in ParentCandidates(child) : j <= result.indexes[1]
            ELSE result.indexes = << >>

\* The child at position 2 has two enclosing symbols and gets the nearer.
C14_Witness ==
    /\ result.op = "GetParent"
    /\ result.input = << 2 >>
    /\ Len(m_symbols) = 3
    /\ ParentCandidates(2) = { 0, 1 }
    /\ result.indexes = << 1 >>

C16_SymbolAtIndexBounds ==
    [][ result'.op = "SymbolAtIndex" =>
            /\ result'.indexes = IF result'.count < Len(m_symbols)
                                 THEN << result'.count >> ELSE << >>
            /\ UNCHANGED << m_symbols, m_file_addr_to_index,
                            m_file_addr_to_index_computed, nameIndexVars >> ]_vars

\* The position just past the last symbol was asked for: null.
C16_Witness ==
    /\ result.op = "SymbolAtIndex"
    /\ Len(m_symbols) = 2
    /\ result.count = 2
    /\ result.indexes = << >>

(***************************************************************************)
(* More claims about the address queries.                                  *)
(***************************************************************************)
\* C17: ForEachSymbolContainingFileAddress hands its callback only symbols
\* whose range holds the address, hands it none after it returned false,
\* and hands a callback that never returns false every symbol whose range
\* holds the address, each once.
C17_ForEachVisits ==
    result.op = "ForEachSymbolContainingFileAddress" =>
        /\ ~result.fault
        /\ Range(result.indexes) \subseteq Containing(result.addr)
        /\ result.count > 0 => Len(result.indexes) <= result.count
        /\ result.count = 0 =>
               \A i \in Containing(result.addr) : Occurrences(result.indexes, i) = 1

\* C18: every position a name index or the address index holds is below
\* the number of symbols, and an index marked computed has an entry for
\* every symbol of the store it files: no operation that changes the
\* store's size leaves a computed index describing the old store.
C18_NoStaleIndexEntries ==
    /\ \A e \in Range(m_name_to_index) \cup Range(m_basename_to_index)
                 \cup Range(m_method_to_index) \cup Range(m_selector_to_index) :
           e.value < Len(m_symbols)
    /\ \A e \in Range(m_file_addr_to_index) : e.data < Len(m_symbols)
    /\ m_name_indexes_computed =>
           \A i \in Positions :
               ( ~IsTrampoline(m_symbols[i + 1]) /\ NamesOf(m_symbols[i + 1]) # {} ) =>
                   \E e \in Range(m_name_to_index) : e.value = i
    /\ m_file_addr_to_index_computed =>
           \A i \in Positions :
               ValueIsAddress(m_symbols[i + 1]) =>
                   \E e \in Range(m_file_addr_to_index) : e.data = i

(***************************************************************************)
(* ItaniumABILanguageRuntime::GetDynamicTypeAndAddress.  The value, the    *)
(* process memory, the target's images and their types are the inputs of   *)
(* the call; a type is "class" (a C++ class other than the static type),   *)
(* "static" (the static type, a C++ class), "other" (no C++ class) or      *)
(* "null" (an empty TypeSP).                                               *)
(***************************************************************************)
MaxModuleTypes == 2
MaxTargetTypes == 3

\* strstr(name, vtable_demangled_prefix) == name
HasVtablePrefix(name) == name \in { "vtable for X" }

\* name + strlen(vtable_demangled_prefix)
VtableClassName(name) == CASE name = "vtable for X" -> "X" [] OTHER -> ""

IsCXXClassType(type) == type \in { "class", "static" }
AreTypesSame(type) == type = "static"

\* Module::FindTypes and ModuleList::FindTypes: the types found, at most
\* max_matches of them, are appended to class_types; their number is returned.
FindTypes(found, max_matches) ==
    IF max_matches = UINT32_MAX \/ Len(found) <= max_matches
    THEN found
    ELSE SubSeq(found, 1, max_matches)

\* TypeList::GetTypeAtIndex
GetTypeAtIndex(class_types, i) ==
    IF i < Len(class_types) THEN class_types[i + 1] ELSE "null"

DynamicTypes == { "null", "class", "static", "other" }
ReadOutcomes == { "ok", "error", "short" }

ReadMemoryCall(addr, size) == [ call |-> "ReadMemory", addr |-> addr, size |-> size ]
FindTypesCall(where, max_matches) == [ call |-> where, max_matches |-> max_matches ]

\* What the call returned, the calls it made on the process and the images,
\* and what it left in class_type_or_name and dynamic_address.
DynamicResult(in, returned, calls, class_name, class_types, num_matches, type_index,
              dynamic_address) ==
    [ op |-> "GetDynamicTypeAndAddress", input |-> << in >>, returned |-> returned,
      calls |-> calls, class_name |-> class_name, class_types |-> class_types,
      num_matches |-> num_matches, type_index |-> type_index,
      dynamic_address |-> dynamic_address ]

FindClassTypesTargetFirst(in) ==
    LET in_target == FindTypes(in.target_types, UINT32_MAX)
        in_module == IF in_target = << >> /\ in.module_sp
                     THEN FindTypes(in.module_types, 1) ELSE << >>
    IN  [ calls |-> << FindTypesCall("ModuleList::FindTypes", UINT32_MAX) >>
                    \o ( IF in_target = << >> /\ in.module_sp
                         THEN << FindTypesCall("Module::FindTypes", 1) >> ELSE << >> ),
          class_types |-> in_target \o in_module,
          num_matches |-> IF in_target = << >> THEN Len(in_module) ELSE Len(in_target) ]

\* Lines 131-156: the class name is looked up in the module of the vtable
\* symbol, then in all the images of the target
FindClassTypes(in) ==
    LET in_module == IF in.module_sp THEN FindTypes(in.module_types, 1) ELSE << >>
        in_target == IF in_module = << >>
                     THEN FindTypes(in.target_types, UINT32_MAX) ELSE << >>
    IN  [ calls |-> ( IF in.module_sp
                      THEN << FindTypesCall("Module::FindTypes", 1) >> ELSE << >> )
                    \o ( IF in_module = << >>
                         THEN << FindTypesCall("ModuleList::FindTypes", UINT32_MAX) >>
                         ELSE << >> ),
          class_types |-> in_module \o in_target,
          num_matches |-> IF in_module = << >> THEN Len(in_target) ELSE Len(in_module) ]

\* Lines 193-211: the first candidate that is a C++ class; num_matches when
\* the loop ends without a break
RECURSIVE FirstCXXClassType(_, _, _)
FirstCXXClassType(class_types, num_matches, i) ==
    IF i >= num_matches THEN num_matches
    ELSE LET type_sp == GetTypeAtIndex(class_types, i)
         IN  IF type_sp # "null" /\ IsCXXClassType(type_sp) THEN i
             ELSE FirstCXXClassType(class_types, num_matches, i + 1)

ChooseTypeLastCandidate(class_types, num_matches) ==
    IF num_matches = 1 THEN 0 ELSE num_matches - 1

\* Lines 164-221: the position in class_types of the type handed to
\* class_type_or_name.SetTypeSP; num_matches when the call gives up
ChooseType(class_types, num_matches) ==
    IF num_matches = 1 THEN 0 ELSE FirstCXXClassType(class_types, num_matches, 0)

ResolveDynamicAddressReadFirst(in, calls, class_name, class_types, num_matches, type_index) ==
    LET type_sp == GetTypeAtIndex(class_types, type_index)
        slide == -2 * in.target_address_byte_size
        offset_to_top_location == in.vtable_address_point + slide
        read == ReadMemoryCall(offset_to_top_location, in.process_address_byte_size)
    IN  IF type_sp = "null"
        THEN DynamicResult(in, class_name # "", calls, class_name, class_types, num_matches,
                           type_index, LLDB_INVALID_ADDRESS)
        ELSE IF in.offset_read # "ok" \/ AreTypesSame(type_sp)
        THEN DynamicResult(in, FALSE, Append(calls, read), class_name, class_types,
                           num_matches, type_index, LLDB_INVALID_ADDRESS)
        ELSE DynamicResult(in, TRUE, Append(calls, read), class_name, class_types,
                           num_matches, type_index, in.original_ptr + in.offset_to_top)

ResolveDynamicAddressOneSlotUp(in, calls, class_name, class_types, num_matches, type_index) ==
    LET type_sp == GetTypeAtIndex(class_types, type_index)
        slide == -1 * in.target_address_byte_size
        offset_to_top_location == in.vtable_address_point + slide
        read == ReadMemoryCall(offset_to_top_location, in.process_address_byte_size)
    IN  IF type_sp = "null"
        THEN DynamicResult(in, class_name # "", calls, class_name, class_types, num_matches,
                           type_index, LLDB_INVALID_ADDRESS)
        ELSE IF AreTypesSame(type_sp)
        THEN DynamicResult(in, FALSE, calls, class_name, class_types, num_matches,
                           type_index, LLDB_INVALID_ADDRESS)
        ELSE IF in.offset_read # "ok"
        THEN DynamicResult(in, FALSE, Append(calls, read), class_name, class_types,
                           num_matches, type_index, LLDB_INVALID_ADDRESS)
        ELSE DynamicResult(in, TRUE, Append(calls, read), class_name, class_types,
                           num_matches, type_index, in.original_ptr + in.offset_to_top)

\* Lines 229-272: the type found is compared with the static type, the
\* offset to top is read and added to the pointer
ResolveDynamicAddress(in, calls, class_name, class_types, num_matches, type_index) ==
    LET type_sp == GetTypeAtIndex(class_types, type_index)
        slide == -2 * in.target_address_byte_size
        offset_to_top_location == in.vtable_address_point + slide
        read == ReadMemoryCall(offset_to_top_location, in.process_address_byte_size)
    IN  IF type_sp = "null"
        THEN \* line 279: the name is set, class_type_or_name is not empty
             DynamicResult(in, class_name # "", calls, class_name, class_types, num_matches,
                           type_index, LLDB_INVALID_ADDRESS)
        ELSE IF AreTypesSame(type_sp)
        THEN DynamicResult(in, FALSE, calls, class_name, class_types, num_matches,
                           type_index, LLDB_INVALID_ADDRESS)
        ELSE IF in.offset_read # "ok"
        THEN DynamicResult(in, FALSE, Append(calls, read), class_name, class_types,
                           num_matches, type_index, LLDB_INVALID_ADDRESS)
        ELSE DynamicResult(in, TRUE, Append(calls, read), class_name, class_types,
                           num_matches, type_index, in.original_ptr + in.offset_to_top)

\* Lines 117-227: the symbol is a vtable; the class is looked up
ResolveClassType(in, calls) ==
    LET class_name == VtableClassName(in.symbol_name)
        found == FindClassTypes(in)
        type_index == ChooseType(found.class_types, found.num_matches)
    IN  IF found.num_matches = 0 \/ type_index = found.num_matches
        THEN DynamicResult(in, FALSE, calls \o found.calls, class_name, found.class_types,
                           found.num_matches, UINT32_MAX, LLDB_INVALID_ADDRESS)
        ELSE ResolveDynamicAddress(in, calls \o found.calls, class_name,
                                   found.class_types, found.num_matches, type_index)

\* The whole call, for the inputs in.  data.GetAddress takes the
\* address_byte_size bytes ReadMemory has just filled in, so "offset == 0"
\* (line 101) is false whenever the read was complete.
DynamicTypeAndAddress(in) ==
    LET nothing(calls) == DynamicResult(in, FALSE, calls, "", << >>, 0, UINT32_MAX,
                                        LLDB_INVALID_ADDRESS)
        read == ReadMemoryCall(in.original_ptr, in.process_address_byte_size)
    IN  IF ~in.could_have_dynamic_value THEN nothing(<< >>)
        ELSE IF in.original_ptr = LLDB_INVALID_ADDRESS THEN nothing(<< >>)
        ELSE IF in.vtable_read # "ok" THEN nothing(<< read >>)
        ELSE IF in.section_load_list # "resolves" THEN nothing(<< read >>)
        ELSE IF in.symbol_name = "null" \/ ~HasVtablePrefix(in.symbol_name)
        THEN nothing(<< read >>)
        ELSE ResolveClassType(in, << read >>)

GetDynamicTypeAndAddress ==
    /\ result.op = "none"
    /\ result.input # << >>
    /\ result' = DynamicTypeAndAddress(result.input[1])
    /\ UNCHANGED << m_symbols, m_file_addr_to_index, m_file_addr_to_index_computed >>
    /\ UNCHANGED nameIndexVars
    /\ UNCHANGED threadVars
    /\ UNCHANGED << m_objfile, handlerVars >>

\* A value whose vtable symbol is found and whose class no image knows.
DynamicInput ==
    [ could_have_dynamic_value |-> TRUE, original_ptr |-> 64,
      process_address_byte_size |-> 8, target_address_byte_size |-> 8,
      vtable_read |-> "ok", vtable_address_point |-> 32,
      section_load_list |-> "resolves", symbol_name |-> "vtable for X",
      module_sp |-> TRUE, module_types |-> << >>, target_types |-> << >>,
      offset_read |-> "ok", offset_to_top |-> 0 ]

\* The inputs of the calls checked: those for which the call ends before
\* the lookup, every choice of the types the images hold, and every outcome
\* of the read of the offset to top.
DynamicInputs(module_type_lists, target_type_lists) ==
    { [ DynamicInput EXCEPT !.could_have_dynamic_value = could,
                            !.original_ptr = ptr, !.vtable_read = vtable_read,
                            !.section_load_list = load_list, !.symbol_name = name,
                            !.target_types = << "class" >> ] :
          could \in BOOLEAN, ptr \in { 64, LLDB_INVALID_ADDRESS },
          vtable_read \in ReadOutcomes,
          load_list \in { "resolves", "empty", "unresolved" },
          name \in { "vtable for X", "X::f()", "", "null" } }
    \cup
    { [ DynamicInput EXCEPT !.module_sp = module_sp, !.module_types = module_types,
                            !.target_types = target_types ] :
          module_sp \in BOOLEAN,
          module_types \in module_type_lists,
          target_types \in target_type_lists }
    \cup
    { [ DynamicInput EXCEPT !.target_types = << type >>, !.offset_read = offset_read,
                            !.offset_to_top = offset_to_top,
                            !.process_address_byte_size = size,
                            !.target_address_byte_size = size ] :
          type \in DynamicTypes,
          offset_read \in ReadOutcomes, offset_to_top \in { 0, -16 },
          size \in { 4, 8 } }

InitDynamic ==
    /\ m_symbols = << >>
    /\ m_name_to_index = << >>
    /\ m_basename_to_index = << >>
    /\ m_method_to_index = << >>
    /\ m_selector_to_index = << >>
    /\ m_file_addr_to_index = << >>
    /\ m_name_indexes_computed = FALSE
    /\ m_file_addr_to_index_computed = FALSE
    /\ result \in { [ NoResult EXCEPT !.input = << in >> ] :
                         in \in DynamicInputs(SeqsUpTo(DynamicTypes, MaxModuleTypes),
                                              SeqsUpTo(DynamicTypes, MaxTargetTypes)) }
    /\ m_objfile = ObjectFile
    /\ NewHandler({ "AppleGetQueuesHandler" })
    /\ m_mutex = Unlocked
    /\ thread = [ t \in Threads |-> IdleThread ]

NextDynamic == GetDynamicTypeAndAddress

SpecDynamic == InitDynamic /\ [][NextDynamic]_vars

(***************************************************************************)
(* The claims about GetDynamicTypeAndAddress.                              *)
(***************************************************************************)
FindTypesCalls(calls) ==
    SelectSeq(calls, LAMBDA c : c.call \in { "Module::FindTypes", "ModuleList::FindTypes" })

\* C19: the class name of the vtable is looked up in the module of the
\* vtable symbol first, for one exact match; all the images of the target
\* are searched after that and only when that search found nothing; when
\* both find nothing the call returns false.
C19_ModuleSearchedFirst ==
    ( result.op = "GetDynamicTypeAndAddress" /\ result.class_name # "" ) =>
        LET in == result.input[1]
            searches == FindTypesCalls(result.calls)
            module_matches == IF Len(in.module_types) = 0 THEN 0 ELSE 1
        IN  /\ in.module_sp =>
                   /\ searches # << >>
                   /\ searches[1] = FindTypesCall("Module::FindTypes", 1)
            /\ ( \E k \in DOMAIN searches : searches[k].call = "ModuleList::FindTypes" )
                   <=> ( ~in.module_sp \/ module_matches = 0 )
            /\ Len(searches) <= 2
            /\ ( in.module_sp /\ module_matches = 1 ) =>
                   result.class_types = << in.module_types[1] >>
            /\ ( ( ~in.module_sp \/ module_matches = 0 ) /\ in.target_types = << >> ) =>
                   ~result.returned

\* The module holds no type of the name, another image does: both searches
\* ran and the call found the dynamic type.
C19_Witness ==
    /\ result.op = "GetDynamicTypeAndAddress"
    /\ result.input[1].module_sp
    /\ result.input[1].module_types = << >>
    /\ FindTypesCalls(result.calls) = << FindTypesCall("Module::FindTypes", 1),
                                         FindTypesCall("ModuleList::FindTypes", UINT32_MAX) >>
    /\ result.class_types = << "class" >>
    /\ result.returned

\* C20: with more than one match the type chosen is the first candidate,
\* in the order of the list, that is a C++ class type; with no such
\* candidate the call returns false and sets no type.
C20_FirstClassTypeChosen ==
    ( result.op = "GetDynamicTypeAndAddress" /\ result.num_matches > 1 ) =>
        LET classes == { i \in 0 .. result.num_matches - 1 :
                             IsCXXClassType(result.class_types[i + 1]) }
        IN  IF classes = {}
            THEN ~result.returned /\ result.type_index = UINT32_MAX
            ELSE result.type_index = SetMin(classes)

\* Three matches: one that is no class, then two classes.
C20_Witness ==
    /\ result.op = "GetDynamicTypeAndAddress"
    /\ result.class_types = << "other", "class", "static" >>
    /\ result.num_matches = 3
    /\ result.type_index = 1
    /\ result.returned

ReadMemoryCalls(calls) == SelectSeq(calls, LAMBDA c : c.call = "ReadMemory")

\* The type handed to class_type_or_name.SetTypeSP, "null" when none was
ResolvedType ==
    IF result.type_index = UINT32_MAX THEN "null"
    ELSE GetTypeAtIndex(result.class_types, result.type_index)

\* C21: when the type found is the static type of the value the call
\* returns false, and the only memory it has read is the vtable pointer:
\* the offset to top is not read.
C21_SameTypeNotDynamic ==
    ( result.op = "GetDynamicTypeAndAddress" /\ ResolvedType = "static" ) =>
        LET in == result.input[1]
        IN  /\ ~result.returned
            /\ ReadMemoryCalls(result.calls)
                   = << ReadMemoryCall(in.original_ptr, in.process_address_byte_size) >>
            /\ result.dynamic_address = LLDB_INVALID_ADDRESS

\* Of two matches the first C++ class is the static type itself.
C21_Witness ==
    /\ result.op = "GetDynamicTypeAndAddress"
    /\ result.class_types = << "other", "static" >>
    /\ result.type_index = 1
    /\ ~result.returned
    /\ Len(result.calls) = 3

\* C22: when the type found is not the static type, the call reads one
\* pointer-width value two pointer widths below the vtable address point;
\* when the read is complete it returns true and the dynamic address is the
\* pointer value plus the (signed) offset to top read; when the read fails
\* or is short it returns false.
C22_OffsetToTopAdded ==
    ( result.op = "GetDynamicTypeAndAddress" /\ ResolvedType \in { "class", "other" } ) =>
        LET in == result.input[1]
            width == in.process_address_byte_size
        IN  /\ ReadMemoryCalls(result.calls)
                   = << ReadMemoryCall(in.original_ptr, width),
                        ReadMemoryCall(in.vtable_address_point - 2 * width, width) >>
            /\ in.offset_read = "ok" =>
                   /\ result.returned
                   /\ result.dynamic_address = in.original_ptr + in.offset_to_top
            /\ in.offset_read # "ok" =>
                   /\ ~result.returned
                   /\ result.dynamic_address = LLDB_INVALID_ADDRESS

\* A 4-byte target: the offset to top -16 is read at 32 - 8 and the
\* dynamic address is 64 - 16.
C22_Witness ==
    /\ result.op = "GetDynamicTypeAndAddress"
    /\ ResolvedType = "class"
    /\ result.input[1].process_address_byte_size = 4
    /\ result.input[1].offset_to_top = -16
    /\ result.calls[Len(result.calls)] = ReadMemoryCall(24, 4)
    /\ result.returned
    /\ result.dynamic_address = 48

\* C35: whenever the call returns true, a type that is not the static type
\* has been put into class_type_or_name and dynamic_address is the pointer
\* value plus the offset to top; it does not return true with the class
\* name alone and dynamic_address untouched.
C35_TrueMeansTypeAndAddress ==
    ( result.op = "GetDynamicTypeAndAddress" /\ result.returned ) =>
        /\ ResolvedType \in { "class", "other" }
        /\ result.dynamic_address
               = result.input[1].original_ptr + result.input[1].offset_to_top

(***************************************************************************)
(* The symbol table under name and address queries together: symbols that  *)
(* have a name and an address.                                             *)
(***************************************************************************)
NamedAddrSymbol(type, mangled, demangled, file_addr, byte_size, size_is_valid) ==
    [ Symbol(type, mangled, demangled, FALSE) EXCEPT
          !.value_is_address = TRUE, !.file_addr = file_addr,
          !.byte_size = byte_size, !.size_is_valid = size_is_valid ]

NamedAddrSymbols ==
    { NamedAddrSymbol("Data", "", "foo", 4, 0, FALSE),
      NamedAddrSymbol("Code", "_ZN1A3fooEv", "A::foo()", 6, 1, TRUE) }

NamedAddrs == { 4, 6 }
NamedMasks == { { "Full" }, NameTypes }

NextQueries ==
    \/ \E symbol \in NamedAddrSymbols :
           /\ Len(m_symbols) < MaxAddrSymbols
           /\ Len(m_basename_to_index) + Len(m_method_to_index)
                  + Len(m_selector_to_index) <= MaxStaleEntries
           /\ AddSymbol([symbol EXCEPT !.id = Len(m_symbols)])
    \/ \E count \in 0 .. MaxAddrSymbols : Resize(count)
    \/ \E name \in QueryNames : AppendSymbolIndexesWithName(name)
    \/ \E name \in FunctionNames, mask \in NamedMasks : FindFunctionSymbols(name, mask)
    \/ \E file_addr \in NamedAddrs, on_null \in NullDereference :
           FindSymbolAtFileAddress(file_addr, on_null)
    \/ \E file_addr \in NamedAddrs, on_null \in NullDereference :
           FindSymbolContainingFileAddress(file_addr, on_null)
    \/ \E file_addr \in NamedAddrs, stop_at \in StopAts, on_null \in NullDereference :
           ForEachSymbolContainingFileAddress(file_addr, stop_at, on_null)

SpecQueries == Init /\ [][NextQueries]_vars

QueryOps ==
    { "AppendSymbolIndexesWithName", "FindFunctionSymbols", "FindSymbolAtFileAddress",
      "FindSymbolContainingFileAddress", "ForEachSymbolContainingFileAddress" }

\* C23: a name or address query made on a table with no symbols returns no
\* symbol (zero results, a null pointer, no callback call), signals no
\* failure, and leaves the table empty.
C23_EmptyTableQueries ==
    ( result.op \in QueryOps /\ m_symbols = << >> ) =>
        /\ result.indexes = << >>
        /\ ~result.fault

(***************************************************************************)
(* The C++ classification of InitNameIndexes: the symbol table under       *)
(* AddSymbol, Resize and function lookups, with symbols of every class the *)
(* classification tells apart.                                             *)
(***************************************************************************)
MaxCxxSymbols == 2

\* A method, a destructor and a const method of class A, a free function,
\* a function of a namespace, a resolver, a data symbol and a trampoline
\* with C++ names, and a vtable, a guard variable and a local entity.
CxxSymbols ==
    { Symbol("Code", "_ZN1A3fooEv", "A::foo()", FALSE),
      Symbol("Code", "_ZN1AD1Ev", "A::~A()", FALSE),
      Symbol("Code", "_ZNK1A3getEv", "A::get() const", FALSE),
      Symbol("Code", "_Z3foov", "foo()", FALSE),
      Symbol("Code", "_ZN2ns3fooEv", "ns::foo()", FALSE),
      Symbol("Resolver", "_ZN1A3fooEv", "A::foo()", FALSE),
      Symbol("Data", "_ZN1AD1Ev", "A::~A()", FALSE),
      Symbol("Trampoline", "_Z3foov", "foo()", FALSE),
      Symbol("Code", "_ZTV1A", "vtable for A", FALSE),
      Symbol("Code", "_ZGVZ3foovE1x", "guard variable for foo()::x", FALSE),
      Symbol("Code", "_ZZ3foovE1x", "foo()::x", FALSE) }

CxxQueryNames == { "foo" }
CxxQueryMasks == { { "Base" }, { "Method" } }

NextCxx ==
    \/ \E symbol \in CxxSymbols :
           /\ Len(m_symbols) < MaxCxxSymbols
           /\ Len(m_basename_to_index) + Len(m_method_to_index) <= MaxStaleEntries
           /\ AddSymbol([symbol EXCEPT !.id = Len(m_symbols)])
    \/ \E count \in 0 .. MaxCxxSymbols : Resize(count)
    \/ \E name \in CxxQueryNames, mask \in CxxQueryMasks : FindFunctionSymbols(name, mask)

SpecCxx == Init /\ [][NextCxx]_vars

\* The same table with only AddSymbol before the first lookup
NextCxxFresh ==
    \/ \E symbol \in CxxSymbols :
           /\ Len(m_symbols) < MaxCxxSymbols
           /\ m_basename_to_index = << >> /\ m_method_to_index = << >>
           /\ AddSymbol([symbol EXCEPT !.id = Len(m_symbols)])
    \/ \E name \in CxxQueryNames, mask \in CxxQueryMasks : FindFunctionSymbols(name, mask)

SpecCxxFresh == Init /\ [][NextCxxFresh]_vars

\* The state is the one a call that ran InitNameIndexes left
JustBuilt ==
    /\ result.op = "FindFunctionSymbols"
    /\ ~result.init_skipped
    /\ m_name_indexes_computed

\* What the demangler makes of the symbol's name
Cxx(symbol) == CxxMethodName(GetDemangledName(symbol))

\* A code or resolver symbol with a C++ function mangling that demangles
IsCxxCodeSymbol(symbol) ==
    /\ symbol.type \in { "Code", "Resolver" }
    /\ IsCxxFunctionMangling(GetMangledName(symbol))
    /\ Cxx(symbol).basename # ""

\* Its basename is a destructor or its name has qualifiers
IsConfirmedMethod(symbol) ==
    IsDestructorBasename(Cxx(symbol).basename) \/ Cxx(symbol).qualifiers # ""

\* The contexts of the confirmed methods among these symbols
KnownClassContexts(symbols) ==
    { Cxx(symbols[k]).context :
          k \in { j \in DOMAIN symbols : /\ IsCxxCodeSymbol(symbols[j])
                                         /\ IsConfirmedMethod(symbols[j]) } }

InMethods(i) == Entry(Cxx(m_symbols[i + 1]).basename, i) \in Range(m_method_to_index)
InBasenames(i) == Entry(Cxx(m_symbols[i + 1]).basename, i) \in Range(m_basename_to_index)

\* The symbol at position i was deferred by the pass: it has a context
\* that no symbol before it had confirmed as a class
WasDeferred(i) ==
    /\ IsCxxCodeSymbol(m_symbols[i + 1])
    /\ ~IsConfirmedMethod(m_symbols[i + 1])
    /\ Cxx(m_symbols[i + 1]).context # ""
    /\ Cxx(m_symbols[i + 1]).context \notin KnownClassContexts(SubSeq(m_symbols, 1, i))

\* C24: after InitNameIndexes, the entry of every deferred symbol is in
\* METHODS (none is lost), and it is in BASENAMES exactly when its context
\* is not among the class contexts known at the end of the pass.
C24_DeferredResolved ==
    JustBuilt =>
        \A i \in Positions :
            WasDeferred(i) =>
                /\ InMethods(i)
                /\ InBasenames(i) <=>
                       Cxx(m_symbols[i + 1]).context \notin KnownClassContexts(m_symbols)

\* The orders a table of n symbols can be put in
TableOrders(n) ==
    { p \in [ 1 .. n -> 1 .. n ] : \A a, b \in 1 .. n : p[a] = p[b] => a = b }

\* C28: after InitNameIndexes, a C++ code symbol is in METHODS (in
\* BASENAMES) exactly when it is after InitNameIndexes on a table that
\* holds the same symbols in any other order.
C28_OrderIndependent ==
    JustBuilt =>
        \A p \in TableOrders(Len(m_symbols)) :
            LET permuted == [ k \in 1 .. Len(m_symbols) |-> m_symbols[p[k]] ]
                other == FreshNameIndexes(permuted)
            IN  \A k \in 1 .. Len(m_symbols) :
                    IsCxxCodeSymbol(permuted[k]) =>
                        /\ InMethods(p[k] - 1) <=>
                               Entry(Cxx(permuted[k]).basename, k - 1) \in Range(other.methods)
                        /\ InBasenames(p[k] - 1) <=>
                               Entry(Cxx(permuted[k]).basename, k - 1) \in Range(other.basenames)

NameIndexEntries ==
    Range(m_name_to_index) \cup Range(m_basename_to_index)
        \cup Range(m_method_to_index) \cup Range(m_selector_to_index)

\* C29: after InitNameIndexes no entry of ALL, BASENAMES, METHODS or
\* SELECTORS holds the position of a trampoline symbol, and the lookup
\* returns no trampoline.
C29_NoTrampolineIndexed ==
    JustBuilt =>
        /\ \A e \in NameIndexEntries :
               e.value \in Positions => ~IsTrampoline(m_symbols[e.value + 1])
        /\ \A i \in Range(result.indexes) :
               i \in Positions => ~IsTrampoline(m_symbols[i + 1])

\* entry.cstring[2] is 'T', 'G' or 'Z'
HasExcludedPrefix(cstring) == cstring \in { "_ZTV1A", "_ZGVZ3foovE1x", "_ZZ3foovE1x" }

\* The class contexts the pass of InitNameIndexes over the table collects
ClassContextsOfPass ==
    NameIndexPass([ all |-> << >>, basenames |-> << >>, methods |-> << >>,
                    selectors |-> << >>, class_contexts |-> {}, deferred |-> << >> ],
                  m_symbols, 0).class_contexts

\* C30: after InitNameIndexes, a C++ code or resolver symbol that is a
\* destructor or has qualifiers is in METHODS, not in BASENAMES, and its
\* context is a known class context; one with no context that is neither
\* is in BASENAMES and not in METHODS; a symbol that is no code or resolver
\* symbol, or whose mangled name starts with _ZT, _ZG or _ZZ, has no entry
\* in BASENAMES or METHODS.
C30_CxxClassification ==
    JustBuilt =>
        \A i \in Positions :
            LET symbol == m_symbols[i + 1]
            IN  /\ ( IsCxxCodeSymbol(symbol) /\ IsConfirmedMethod(symbol) ) =>
                       /\ InMethods(i)
                       /\ ~InBasenames(i)
                       /\ Cxx(symbol).context \in ClassContextsOfPass
                /\ ( IsCxxCodeSymbol(symbol) /\ ~IsConfirmedMethod(symbol)
                     /\ Cxx(symbol).context = "" ) =>
                       /\ InBasenames(i)
                       /\ ~InMethods(i)
                /\ ( symbol.type \notin { "Code", "Resolver" }
                     \/ HasExcludedPrefix(GetMangledName(symbol)) ) =>
                       \A e \in Range(m_basename_to_index) \cup Range(m_method_to_index) :
                           e.value # i

(***************************************************************************)
(* The introspection handlers AppleGetQueuesHandler,                       *)
(* AppleGetPendingItemsHandler and AppleGetThreadItemInfoHandler.  A call  *)
(* of the Get operation gets, in env, what the thread, the process and the *)
(* expression machinery answer during the call; result.calls lists what    *)
(* the call did in the inferior, in order.                                 *)
(***************************************************************************)
Handlers ==
    { "AppleGetQueuesHandler", "AppleGetPendingItemsHandler",
      "AppleGetThreadItemInfoHandler" }

\* lldb::ExpressionResults
ExpressionResults ==
    { "eExpressionCompleted", "eExpressionInterrupted", "eExpressionTimedOut" }

\* The addresses Process::AllocateMemory hands out for a return buffer and
\* FunctionCaller::WriteFunctionArguments for an argument structure
BufferAddrs == { 256 }
ArgsAddrs == { 4096 }

\* lldb_private::Error: Clear(), SetErrorString()
ClearedError == [ fail |-> FALSE, string |-> "" ]
SetErrorString(string) == [ fail |-> TRUE, string |-> string ]

InferiorCall(call, addr, outcome) == [ call |-> call, addr |-> addr, outcome |-> outcome ]

\* What a Setup function leaves: the utility function, the address of the
\* arguments it wrote, what it did in the inferior
SetupResult(impl_code, args_addr, calls) ==
    [ impl_code |-> impl_code, args_addr |-> args_addr, calls |-> calls ]

\* FunctionCaller::WriteFunctionArguments with args_addr = LLDB_INVALID_ADDRESS:
\* a new argument structure, or no address when writing fails
WriteFunctionArguments(impl_code, env, calls) ==
    IF env.write_args
    THEN SetupResult(impl_code, CHOOSE a \in ArgsAddrs : TRUE,
                     Append(calls, InferiorCall("WriteFunctionArguments",
                                                CHOOSE a \in ArgsAddrs : TRUE, "ok")))
    ELSE SetupResult(impl_code, LLDB_INVALID_ADDRESS,
                     Append(calls, InferiorCall("WriteFunctionArguments",
                                                LLDB_INVALID_ADDRESS, "error")))

\* Target::GetUtilityFunctionForLanguage followed by UtilityFunction::Install:
\* the utility function the handler owns afterwards (null when either fails)
\* and what was done in the inferior
InstallUtilityFunction(env, calls) ==
    IF env.get_utility = "error"
    THEN [ impl_code |-> NullUtilityFunction, calls |-> calls ]
    ELSE IF ~env.install
    THEN [ impl_code |-> NullUtilityFunction,
           calls |-> Append(calls, InferiorCall("Install", LLDB_INVALID_ADDRESS, "error")) ]
    ELSE [ impl_code |-> [ is_null |-> FALSE, m_caller_up |-> FALSE ],
           calls |-> Append(calls, InferiorCall("Install", LLDB_INVALID_ADDRESS, "ok")) ]

\* UtilityFunction::MakeFunctionCaller: the caller it already has, or a new
\* one, or none and an error
MakeFunctionCaller(impl_code, env) ==
    IF impl_code.m_caller_up THEN [ impl_code |-> impl_code, error |-> FALSE ]
    ELSE IF env.make_caller = "error" THEN [ impl_code |-> impl_code, error |-> TRUE ]
    ELSE [ impl_code |-> [ impl_code EXCEPT !.m_caller_up = TRUE ], error |-> FALSE ]

\* AppleGetQueuesHandler::SetupGetQueuesFunction
SetupGetQueuesFunction(impl_code, env) ==
    LET first == IF impl_code.is_null THEN InstallUtilityFunction(env, << >>)
                 ELSE [ impl_code |-> impl_code, calls |-> << >> ]
    IN  IF first.impl_code.is_null
        THEN SetupResult(first.impl_code, LLDB_INVALID_ADDRESS, first.calls)
        ELSE LET made == MakeFunctionCaller(first.impl_code, env)
             IN  IF made.error
                 THEN SetupResult(made.impl_code, LLDB_INVALID_ADDRESS, first.calls)
                 ELSE WriteFunctionArguments(made.impl_code, env, first.calls)

\* AppleGetPendingItemsHandler::SetupGetPendingItemsFunction: the caller is
\* made only in the call that installs the utility function, and
\* get_pending_items_caller is nullptr in every other call
SetupGetPendingItemsFunction(impl_code, env) ==
    IF impl_code.is_null
    THEN LET first == InstallUtilityFunction(env, << >>)
         IN  IF first.impl_code.is_null
             THEN SetupResult(first.impl_code, LLDB_INVALID_ADDRESS, first.calls)
             ELSE LET made == MakeFunctionCaller(first.impl_code, env)
                  IN  IF made.error
                      THEN SetupResult(NullUtilityFunction, LLDB_INVALID_ADDRESS, first.calls)
                      ELSE WriteFunctionArguments(made.impl_code, env, first.calls)
    ELSE SetupResult(impl_code, LLDB_INVALID_ADDRESS, << >>)

\* AppleGetThreadItemInfoHandler::SetupGetThreadItemInfoFunction
SetupGetThreadItemInfoFunction(impl_code, env) ==
    IF impl_code.is_null
    THEN LET first == InstallUtilityFunction(env, << >>)
         IN  IF first.impl_code.is_null
             THEN SetupResult(first.impl_code, LLDB_INVALID_ADDRESS, first.calls)
             ELSE LET made == MakeFunctionCaller(first.impl_code, env)
                  IN  IF made.error
                      THEN SetupResult(NullUtilityFunction, LLDB_INVALID_ADDRESS, first.calls)
                      ELSE WriteFunctionArguments(made.impl_code, env, first.calls)
    ELSE WriteFunctionArguments(impl_code, env, << >>)

SetupFunction(class, impl_code, env) ==
    CASE class = "AppleGetQueuesHandler" -> SetupGetQueuesFunction(impl_code, env)
      [] class = "AppleGetPendingItemsHandler" -> SetupGetPendingItemsFunction(impl_code, env)
      [] OTHER -> SetupGetThreadItemInfoFunction(impl_code, env)

\* The return value with its buffer pointer invalid and its sizes zero
InvalidReturnInfo == [ buffer_ptr |-> LLDB_INVALID_ADDRESS, buffer_size |-> 0, count |-> 0 ]

\* What a Get call leaves: the handler's fields, the caller's error, the
\* value returned; fault when the call went through a null pointer.
GetResult(op, env, impl_code, buffer_addr, allocated, error, return_value, calls, log, fault) ==
    [ NoResult EXCEPT !.op = op, !.input = << env >>, !.fault = fault ]
        @@ [ impl_code |-> impl_code, buffer_addr |-> buffer_addr, allocated |-> allocated,
             error |-> error, return_value |-> return_value, calls |-> calls,
             log |-> log ]

\* The reads of the return buffer after a completed call: the buffer
\* pointer, the size and (not for the thread item) the count
ReadReturnBuffer(class, env, buffer_addr, calls) ==
    LET read_ptr == InferiorCall("ReadUnsignedIntegerFromMemory", buffer_addr,
                                 IF env.reads = "ptr_error" THEN "error" ELSE "ok")
        read_size == InferiorCall("ReadUnsignedIntegerFromMemory", buffer_addr + 8,
                                  IF env.reads = "size_error" THEN "error" ELSE "ok")
        read_count == InferiorCall("ReadUnsignedIntegerFromMemory", buffer_addr + 16,
                                   IF env.reads = "count_error" THEN "error" ELSE "ok")
        failed(what) == [ error |-> SetErrorString(what), return_value |-> InvalidReturnInfo ]
    IN  IF env.reads = "ptr_error"
        THEN failed("memory read failed") @@ [ calls |-> Append(calls, read_ptr) ]
        ELSE IF env.reads = "ptr_invalid"
        THEN [ error |-> ClearedError, return_value |-> InvalidReturnInfo,
               calls |-> Append(calls, read_ptr) ]
        ELSE IF env.reads = "size_error"
        THEN [ error |-> SetErrorString("memory read failed"),
               return_value |-> [ InvalidReturnInfo EXCEPT !.buffer_size = 0 ],
               calls |-> calls \o << read_ptr, read_size >> ]
        ELSE IF class = "AppleGetThreadItemInfoHandler"
        THEN [ error |-> ClearedError,
               return_value |-> [ buffer_ptr |-> 8192, buffer_size |-> 64, count |-> 0 ],
               calls |-> calls \o << read_ptr, read_size >> ]
        ELSE IF env.reads = "count_error"
        THEN [ error |-> SetErrorString("memory read failed"),
               return_value |-> [ InvalidReturnInfo EXCEPT !.buffer_size = 64 ],
               calls |-> calls \o << read_ptr, read_size, read_count >> ]
        ELSE [ error |-> ClearedError,
               return_value |-> [ buffer_ptr |-> 8192, buffer_size |-> 64, count |-> 2 ],
               calls |-> calls \o << read_ptr, read_size, read_count >> ]

\* m_impl_code->GetFunctionCaller() through a null m_impl_code either
\* faults or reads something that is no function caller
AbsentUtilityFunction == { "fault", "null_caller" }

\* From ExecuteFunction on: the call in the inferior and the reads
ExecuteAndRead(op, class, env, impl_code, buffer_addr, allocated, args_addr, calls) ==
    LET executed == Append(calls, InferiorCall("ExecuteFunction", args_addr,
                                               env.func_call_ret))
    IN  IF env.func_call_ret # "eExpressionCompleted"
        THEN GetResult(op, env, impl_code, buffer_addr, allocated,
                       SetErrorString("Unable to call function"), InvalidReturnInfo,
                       executed, IF env.log THEN << env.func_call_ret >> ELSE << >>, FALSE)
        ELSE LET read == ReadReturnBuffer(class, env, buffer_addr, executed)
             IN  GetResult(op, env, impl_code, buffer_addr, allocated, read.error,
                           read.return_value, read.calls, << >>, FALSE)

\* After the Setup function returned: the tests of the utility function and
\* of its caller that each handler makes before ExecuteFunction
UseUtilityFunction(op, class, env, setup, buffer_addr, allocated, calls) ==
    LET impl_code == setup.impl_code
        all_calls == calls \o setup.calls
        unable(string) == GetResult(op, env, impl_code, buffer_addr, allocated,
                                    SetErrorString(string), InvalidReturnInfo, all_calls,
                                    << >>, FALSE)
    IN  IF impl_code.is_null
        THEN IF class = "AppleGetPendingItemsHandler"
             THEN IF env.on_null = "fault"
                  THEN GetResult(op, env, impl_code, buffer_addr, allocated, ClearedError,
                                 InvalidReturnInfo, all_calls, << >>, TRUE)
                  ELSE unable("Unable to compile function")
             ELSE unable("Unable to compile function")
        ELSE IF ~impl_code.m_caller_up
        THEN unable("Unable to get caller")
        ELSE ExecuteAndRead(op, class, env, impl_code, buffer_addr, allocated,
                            setup.args_addr, all_calls)

GetOperationAllocatesBeforeSafetyTest(op, class, env, impl_code, buffer_addr, allocated) ==
    LET bufaddr == CHOOSE a \in BufferAddrs : TRUE
        alloc == << InferiorCall("AllocateMemory", bufaddr, "ok") >>
    IN  IF buffer_addr = LLDB_INVALID_ADDRESS /\ env.alloc # "ok"
        THEN GetResult(op, env, impl_code, buffer_addr, allocated,
                       IF env.alloc = "error" THEN SetErrorString("unable to allocate memory")
                       ELSE ClearedError,
                       InvalidReturnInfo,
                       << InferiorCall("AllocateMemory", LLDB_INVALID_ADDRESS, env.alloc) >>,
                       << >>, FALSE)
        ELSE IF ~env.safe_to_call
        THEN GetResult(op, env, impl_code,
                       IF buffer_addr = LLDB_INVALID_ADDRESS THEN bufaddr ELSE buffer_addr,
                       IF buffer_addr = LLDB_INVALID_ADDRESS
                       THEN allocated \cup { bufaddr } ELSE allocated,
                       SetErrorString("Not safe to call functions on this thread."),
                       InvalidReturnInfo,
                       IF buffer_addr = LLDB_INVALID_ADDRESS THEN alloc ELSE << >>,
                       << >>, FALSE)
        ELSE IF buffer_addr = LLDB_INVALID_ADDRESS
        THEN UseUtilityFunction(op, class, env, SetupFunction(class, impl_code, env),
                                bufaddr, allocated \cup { bufaddr }, alloc)
        ELSE UseUtilityFunction(op, class, env, SetupFunction(class, impl_code, env),
                                buffer_addr, allocated, << >>)

\* GetCurrentQueues, GetPendingItems, GetThreadItemInfo from entry to return
GetOperation(op, class, env, impl_code, buffer_addr, allocated) ==
    IF ~env.safe_to_call
    THEN GetResult(op, env, impl_code, buffer_addr, allocated,
                   SetErrorString("Not safe to call functions on this thread."),
                   InvalidReturnInfo, << >>, << >>, FALSE)
    ELSE IF buffer_addr = LLDB_INVALID_ADDRESS
    THEN IF env.alloc = "ok"
         THEN LET bufaddr == CHOOSE a \in BufferAddrs : TRUE
                  alloc == << InferiorCall("AllocateMemory", bufaddr, "ok") >>
              IN  UseUtilityFunction(op, class, env, SetupFunction(class, impl_code, env),
                                     bufaddr, allocated \cup { bufaddr }, alloc)
         ELSE GetResult(op, env, impl_code, buffer_addr, allocated,
                        IF env.alloc = "error" THEN SetErrorString("unable to allocate memory")
                        ELSE ClearedError,
                        InvalidReturnInfo,
                        << InferiorCall("AllocateMemory", LLDB_INVALID_ADDRESS, env.alloc) >>,
                        << >>, FALSE)
    ELSE UseUtilityFunction(op, class, env, SetupFunction(class, impl_code, env),
                            buffer_addr, allocated, << >>)

GetOperationName(class) ==
    CASE class = "AppleGetQueuesHandler" -> "GetCurrentQueues"
      [] class = "AppleGetPendingItemsHandler" -> "GetPendingItems"
      [] OTHER -> "GetThreadItemInfo"

symtabVars == << m_symbols, m_name_to_index, m_basename_to_index, m_method_to_index,
                 m_selector_to_index, m_file_addr_to_index, m_name_indexes_computed,
                 m_file_addr_to_index_computed, m_objfile, m_mutex, thread >>

\* One call of the handler's Get operation
Get(env) ==
    /\ result.fault = FALSE
    /\ LET got == GetOperation(GetOperationName(handler_class), handler_class, env,
                               m_impl_code, m_return_buffer_addr, process.allocated)
       IN  /\ result' = got
           /\ m_impl_code' = got.impl_code
           /\ m_return_buffer_addr' = got.buffer_addr
           /\ process' = [ process EXCEPT !.allocated = got.allocated ]
    /\ UNCHANGED handler_class
    /\ UNCHANGED handlerThreadVars
    /\ UNCHANGED symtabVars

\* Detach: the buffer is given back, its address is kept
Detach ==
    /\ result.fault = FALSE
    /\ IF process.alive /\ m_return_buffer_addr # LLDB_INVALID_ADDRESS
       THEN process' = [ process EXCEPT
                             !.allocated = @ \ { m_return_buffer_addr },
                             !.deallocated = Append(@, m_return_buffer_addr) ]
       ELSE UNCHANGED process
    /\ result' = [ NoResult EXCEPT !.op = "Detach" ]
    /\ UNCHANGED << handler_class, m_impl_code, m_return_buffer_addr >>
    /\ UNCHANGED handlerThreadVars
    /\ UNCHANGED symtabVars

MaxDetaches == 2

\* What the thread, the process and the expression machinery answer when
\* everything works
HandlerEnv ==
    [ safe_to_call |-> TRUE, log |-> FALSE, alloc |-> "ok", get_utility |-> "ok",
      install |-> TRUE, make_caller |-> "ok", write_args |-> TRUE,
      func_call_ret |-> "eExpressionCompleted", reads |-> "ok", on_null |-> "fault" ]

\* Every way the steps before the call can fail, and every way the call and
\* the reads after it can
HandlerEnvs ==
    { [ HandlerEnv EXCEPT !.safe_to_call = safe, !.alloc = alloc, !.get_utility = get,
                          !.install = install, !.make_caller = make,
                          !.write_args = write, !.on_null = on_null ] :
          safe \in BOOLEAN, alloc \in { "ok", "error", "invalid" },
          get \in { "ok", "error" }, install \in BOOLEAN, make \in { "ok", "error" },
          write \in BOOLEAN, on_null \in AbsentUtilityFunction }
    \cup
    { [ HandlerEnv EXCEPT !.func_call_ret = ret, !.log = log, !.reads = reads ] :
          ret \in ExpressionResults, log \in BOOLEAN,
          reads \in { "ok", "ptr_error", "ptr_invalid", "size_error", "count_error" } }

InitHandlers ==
    /\ m_symbols = << >>
    /\ m_name_to_index = << >>
    /\ m_basename_to_index = << >>
    /\ m_method_to_index = << >>
    /\ m_selector_to_index = << >>
    /\ m_file_addr_to_index = << >>
    /\ m_name_indexes_computed = FALSE
    /\ m_file_addr_to_index_computed = FALSE
    /\ result = NoResult
    /\ m_objfile = ObjectFile
    /\ NewHandler(Handlers)
    /\ m_mutex = Unlocked
    /\ thread = [ t \in Threads |-> IdleThread ]

NextHandlers ==
    \/ \E env \in HandlerEnvs : Get(env)
    \/ /\ Len(process.deallocated) < MaxDetaches
       /\ Detach

SpecHandlers == InitHandlers /\ [][NextHandlers]_vars

GetOps == { "GetCurrentQueues", "GetPendingItems", "GetThreadItemInfo" }

CallsIn(calls, call) == SelectSeq(calls, LAMBDA c : c.call = call)
CallsOf(call) == CallsIn(result.calls, call)

\* C25: when the allocation of the return buffer reports an error or
\* returns the invalid address, the Get operation returns the invalid
\* buffer pointer, the caller's error is a failure with a message, no
\* function was called in the inferior, and the cached buffer address is
\* still invalid.
C25_AllocationFailure ==
    ( result.op \in GetOps
      /\ \E k \in DOMAIN result.calls :
             /\ result.calls[k].call = "AllocateMemory"
             /\ result.calls[k].outcome # "ok" ) =>
        /\ result.return_value.buffer_ptr = LLDB_INVALID_ADDRESS
        /\ result.error.fail
        /\ result.error.string # ""
        /\ CallsOf("ExecuteFunction") = << >>
        /\ m_return_buffer_addr = LLDB_INVALID_ADDRESS

\* C26: when ExecuteFunction does not return eExpressionCompleted, the Get
\* operation returns the invalid buffer pointer, the caller's error is a
\* failure, the return buffer was not read, and the completion code is in
\* what the call hands on: the error, the value returned or the log.
C26_ExecutionFailure ==
    ( result.op \in GetOps
      /\ \E k \in DOMAIN result.calls :
             /\ result.calls[k].call = "ExecuteFunction"
             /\ result.calls[k].outcome # "eExpressionCompleted" ) =>
        /\ result.return_value.buffer_ptr = LLDB_INVALID_ADDRESS
        /\ result.error.fail
        /\ CallsOf("ReadUnsignedIntegerFromMemory") = << >>
        /\ \E k \in DOMAIN result.calls :
               /\ result.calls[k].call = "ExecuteFunction"
               /\ \/ result.error.string = result.calls[k].outcome
                  \/ result.calls[k].outcome \in Range(result.log)

\* The Setup function could not obtain or install the utility function, or
\* could not make its caller, in this call
SetupFailed ==
    /\ result.op \in GetOps
    /\ result.input[1].safe_to_call
    /\ CallsOf("AllocateMemory") = << >> \/ result.input[1].alloc = "ok"
    /\ \/ m_impl_code.is_null
       \/ ~m_impl_code.m_caller_up

\* C27: when the Setup function fails to obtain or install the utility
\* function or to make its caller, the Get operation returns the invalid
\* buffer pointer with the caller's error a failure, and goes through no
\* null utility function or caller.
C27_SetupFailure ==
    SetupFailed =>
        /\ result.return_value.buffer_ptr = LLDB_INVALID_ADDRESS
        /\ result.error.fail
        /\ ~result.fault
        /\ CallsOf("ExecuteFunction") = << >>


(***************************************************************************)
(* The symbol table under AddSymbol, SectionFileAddressesChanged and the   *)
(* name and address queries; the store is never resized.                   *)
(***************************************************************************)
FrameSymbols ==
    NamedAddrSymbols \cup { Symbol("Code", "_Z3foov", "foo()", FALSE) }

FrameNames == { "foo", "" }
SymbolTypes == { "Any", "Code" }
MaxPriorIndexes == 2

\* The positions a caller has collected from this table so far.
PriorIndexes == SeqsUpTo(0 .. Len(m_symbols) - 1, MaxPriorIndexes)

NextFrame ==
    \/ \E symbol \in FrameSymbols :
           /\ Len(m_symbols) < MaxAddrSymbols
           /\ Len(m_basename_to_index) + Len(m_method_to_index)
                  + Len(m_selector_to_index) <= MaxStaleEntries
           /\ AddSymbol([symbol EXCEPT !.id = Len(m_symbols)])
    \/ /\ Len(m_file_addr_to_index) <= MaxAddrSymbols
       /\ SectionFileAddressesChanged
    \/ \E name \in FrameNames : AppendSymbolIndexesWithName(name)
    \/ \E name \in FrameNames, symbol_type \in SymbolTypes, indexes \in PriorIndexes :
           AppendSymbolIndexesWithNameAndType(name, symbol_type, indexes)
    \/ \E name \in FunctionNames, mask \in NamedMasks : FindFunctionSymbols(name, mask)
    \/ \E file_addr \in NamedAddrs, on_null \in NullDereference :
           FindSymbolAtFileAddress(file_addr, on_null)
    \/ \E file_addr \in NamedAddrs, on_null \in NullDereference :
           FindSymbolContainingFileAddress(file_addr, on_null)

SpecFrame == Init /\ [][NextFrame]_vars

\* C31: AppendSymbolIndexesWithNameAndType only appends: what the caller's
\* vector held before the call is still there, in the same order, at its
\* front, and the value returned is the number of entries the call added.
C31_OnlyAppends ==
    result.op = "AppendSymbolIndexesWithNameAndType" =>
        /\ Len(result.indexes) >= Len(result.input)
        /\ SubSeq(result.indexes, 1, Len(result.input)) = result.input
        /\ result.count = Len(result.indexes) - Len(result.input)

\* The part of the table a name lookup reads.
NameTable ==
    [ symbols |-> m_symbols, computed |-> m_name_indexes_computed,
      all |-> m_name_to_index, basenames |-> m_basename_to_index,
      methods |-> m_method_to_index, selectors |-> m_selector_to_index ]

\* The indexes a lookup on that table goes on with (InitNameIndexes runs
\* when the flag is not set) ...
IndexesOf(table) ==
    IF table.computed THEN table
    ELSE BuildNameIndexes([ all |-> table.all, basenames |-> table.basenames,
                            methods |-> table.methods, selectors |-> table.selectors,
                            class_contexts |-> {}, deferred |-> << >> ],
                          table.symbols)

\* ... and what AppendSymbolIndexesWithName and FindFunctionSymbols hand
\* back from it.
NameLookup(table, name) == GetValues(IndexesOf(table).all, name)

FunctionLookup(table, name, mask) ==
    LET ix == IndexesOf(table)
        IsFunction(idx) == /\ idx < Len(table.symbols)
                           /\ table.symbols[idx + 1].type \in {"Code", "Resolver", "ReExported"}
        full == IF mask \cap {"Base", "Full"} # {}
                THEN SelectSeq(GetValues(ix.all, name), IsFunction) ELSE << >>
        base == IF "Base" \in mask THEN GetValues(ix.basenames, name) ELSE << >>
        method == IF "Method" \in mask THEN GetValues(ix.methods, name) ELSE << >>
        selector == IF "Selector" \in mask THEN GetValues(ix.selectors, name) ELSE << >>
        unique == StdUnique(SortAscending(full \o base \o method \o selector))
    IN  SubSeq(unique.vector, 1, unique.new_end)

NameLookups(table) ==
    [ name \in FrameNames \ { "" } |-> NameLookup(table, name) ]

FunctionLookups(table) ==
    [ q \in FunctionNames \X NamedMasks |-> FunctionLookup(table, q[1], q[2]) ]

\* C32: SectionFileAddressesChanged changes the result of no name lookup:
\* for every name AppendSymbolIndexesWithName and FindFunctionSymbols give
\* the same positions after the call as they would have given before it.
C32_NameLookupsKept ==
    [][ result'.op = "SectionFileAddressesChanged" =>
            /\ NameLookups(NameTable') = NameLookups(NameTable)
            /\ FunctionLookups(NameTable') = FunctionLookups(NameTable) ]_vars

\* C33: under AddSymbol, SectionFileAddressesChanged and address queries,
\* an address index that is marked computed holds one entry for each symbol
\* whose value is an address, no entry twice and none for another symbol,
\* and is sorted by base address.
C33_OneEntryPerAddressSymbol ==
    m_file_addr_to_index_computed =>
        /\ \A i \in Positions :
               Cardinality({ k \in DOMAIN m_file_addr_to_index :
                                m_file_addr_to_index[k].data = i })
                   = IF ValueIsAddress(m_symbols[i + 1]) THEN 1 ELSE 0
        /\ \A k \in DOMAIN m_file_addr_to_index : m_file_addr_to_index[k].data \in Positions
        /\ \A k \in 1 .. Len(m_file_addr_to_index) - 1 :
               m_file_addr_to_index[k].base <= m_file_addr_to_index[k + 1].base


(***************************************************************************)
(* The lazy name index build under two threads.                            *)
(***************************************************************************)
\* The thread is inside the body of InitNameIndexes: it has found the flag
\* clear and has not finished the pass over the symbols and the sorts.
InsideBuild(t) == thread[t].pc \in { "InitNameIndexes_SetFlag", "InitNameIndexes" }

\* The thread has seen m_name_indexes_computed true, or has come back from
\* InitNameIndexes, and its next statement reads one of the name indexes.
ReadsNameIndex(t) ==
    thread[t].pc \in { "AppendSymbolIndexesWithName", "Base_read", "Method_read",
                       "Selector_read" }

NameIndexesNow ==
    [ all |-> m_name_to_index, basenames |-> m_basename_to_index,
      methods |-> m_method_to_index, selectors |-> m_selector_to_index ]

NameIndexesNotBuilt ==
    [ all |-> << >>, basenames |-> << >>, methods |-> << >>, selectors |-> << >> ]

\* C34: with two threads querying a table whose name indexes are not built,
\* the build runs once (no second thread enters it, and the indexes hold
\* nothing or what one build files), no thread reads a name index while
\* another thread is inside the build, and a thread that goes on to read
\* an index after testing the flag finds the indexes fully built.
C34_BuildOnceAndSerialized ==
    /\ Cardinality({ t \in Threads : InsideBuild(t) }) <= 1
    /\ NameIndexesNow \in { NameIndexesNotBuilt, FreshNameIndexes(m_symbols) }
    /\ \A t, u \in Threads : (t # u /\ InsideBuild(t)) => ~ReadsNameIndex(u)
    /\ \A t \in Threads : ReadsNameIndex(t) => NameIndexesNow = FreshNameIndexes(m_symbols)


(***************************************************************************)
(* More claims about the handlers.                                         *)
(***************************************************************************)
\* C36: when the thread reports that it is not safe to call functions, the
\* Get operation returns the invalid buffer pointer with size and count 0
\* and the caller's error set, and it has no side effect: nothing is
\* allocated, installed, written or called in the inferior, and the
\* handler's utility function and buffer address are what they were.
C36_NotSafeNoSideEffect ==
    [][ ( result'.op \in GetOps /\ ~result'.input[1].safe_to_call ) =>
            /\ result'.return_value = InvalidReturnInfo
            /\ result'.error.fail
            /\ result'.error.string # ""
            /\ ~result'.fault
            /\ result'.calls = << >>
            /\ UNCHANGED << m_impl_code, m_return_buffer_addr, process >> ]_vars

\* The refusal came from a handler that had nothing yet: no utility
\* function, no return buffer.
C36_Witness ==
    /\ result.op = "GetPendingItems"
    /\ ~result.input[1].safe_to_call
    /\ result.input[1].alloc = "ok"
    /\ result.error = SetErrorString("Not safe to call functions on this thread.")
    /\ m_impl_code.is_null
    /\ m_return_buffer_addr = LLDB_INVALID_ADDRESS
    /\ process.allocated = {}

\* The call reached the inferior with the return buffer: it called the
\* function, which writes its results there, or read them from it.
UsedReturnBuffer ==
    \E k \in DOMAIN result.calls :
        result.calls[k].call \in { "ExecuteFunction", "ReadUnsignedIntegerFromMemory" }

\* C38: over Get and Detach calls on one handler the return buffer is
\* given back to the inferior at most once, and a Get call made after the
\* Detach that gave it back does not hand the freed address to the inferior
\* or read from it: the buffer a Get call uses is allocated.
C38_DeallocatedOnceNoUseAfter ==
    /\ \A i, j \in DOMAIN process.deallocated :
           i # j => process.deallocated[i] # process.deallocated[j]
    /\ ( result.op \in GetOps /\ UsedReturnBuffer ) =>
           result.buffer_addr \in process.allocated

\* A GetPendingItems call that found the utility function installed by an
\* earlier call, with its function caller, and got as far as the Setup
\* function
LaterPendingItemsCall ==
    /\ result.op = "GetPendingItems"
    /\ result.input[1].safe_to_call
    /\ result.buffer_addr # LLDB_INVALID_ADDRESS
    /\ ~result.impl_code.is_null
    /\ result.impl_code.m_caller_up
    /\ CallsOf("Install") = << >>

\* C40: in every GetPendingItems call made after an earlier call installed
\* the utility function, the Setup function obtains the function caller and
\* writes the arguments of this call into the inferior, and when the write
\* succeeds the address it returns is valid and is the one ExecuteFunction
\* is called with.
C40_LaterCallsWriteArguments ==
    LaterPendingItemsCall =>
        /\ Len(CallsOf("WriteFunctionArguments")) = 1
        /\ result.input[1].write_args =>
               \A k \in DOMAIN result.calls :
                   result.calls[k].call = "ExecuteFunction" =>
                       /\ result.calls[k].addr \in ArgsAddrs
                       /\ result.calls[k].addr = CallsOf("WriteFunctionArguments")[1].addr


(***************************************************************************)
(* The Get operation and Detach statement by statement, for threads that   *)
(* call into one handler at the same time.  handler_thread[t].pc is the    *)
(* statement thread t executes next; the Locker on the return-buffer mutex *)
(* is held from the test of the buffer address to the return.              *)
(***************************************************************************)
otherHandlerVars == << handler_class, symtabVars >>

EnvOf(t) == handler_thread[t].env[1]

\* The call returns: the Locker, if the thread has it, lets the mutex go
ReturnFrom(t, returned) ==
    /\ result' = returned
    /\ handler_thread' = [ handler_thread EXCEPT ![t] = IdleCaller ]
    /\ m_retbuffer_mutex' = IF m_retbuffer_mutex = t THEN 0 ELSE m_retbuffer_mutex

\* Entry to the test of SafeToCallFunctions
Get_Enter(t, env) ==
    /\ result.fault = FALSE
    /\ handler_thread[t].pc = "idle"
    /\ IF ~env.safe_to_call
       THEN ReturnFrom(t, GetOperation(GetOperationName(handler_class), handler_class, env,
                                       m_impl_code, m_return_buffer_addr, process.allocated))
       ELSE /\ handler_thread' = [ handler_thread EXCEPT
                                       ![t] = [ IdleCaller EXCEPT !.pc = "Locker",
                                                                  !.env = << env >> ] ]
            /\ UNCHANGED << result, m_retbuffer_mutex >>
    /\ UNCHANGED << m_impl_code, m_return_buffer_addr, process >>
    /\ UNCHANGED otherHandlerVars

Get_LockerNotWaiting(t) ==
    /\ handler_thread[t].pc = "Locker"
    /\ m_retbuffer_mutex' = t
    /\ handler_thread' = [ handler_thread EXCEPT ![t].pc = "TestBuffer" ]
    /\ UNCHANGED << result, m_impl_code, m_return_buffer_addr, process >>
    /\ UNCHANGED otherHandlerVars

\* Mutex::Locker locker(m_get_..._retbuffer_mutex): waits for the mutex
Get_Locker(t) ==
    /\ handler_thread[t].pc = "Locker"
    /\ m_retbuffer_mutex = 0
    /\ m_retbuffer_mutex' = t
    /\ handler_thread' = [ handler_thread EXCEPT ![t].pc = "TestBuffer" ]
    /\ UNCHANGED << result, m_impl_code, m_return_buffer_addr, process >>
    /\ UNCHANGED otherHandlerVars

\* "if (m_get_..._return_buffer_addr == LLDB_INVALID_ADDRESS)"
Get_TestBuffer(t) ==
    /\ handler_thread[t].pc = "TestBuffer"
    /\ handler_thread' = [ handler_thread EXCEPT
                               ![t].pc = IF m_return_buffer_addr = LLDB_INVALID_ADDRESS
                                         THEN "AllocateMemory" ELSE "Setup" ]
    /\ UNCHANGED << result, m_retbuffer_mutex, m_impl_code, m_return_buffer_addr, process >>
    /\ UNCHANGED otherHandlerVars

\* AllocateMemory, the test of what it gave, and the assignment to the
\* member
Get_AllocateMemory(t) ==
    /\ handler_thread[t].pc = "AllocateMemory"
    /\ IF EnvOf(t).alloc = "ok"
       THEN LET bufaddr == CHOOSE a \in BufferAddrs : TRUE
            IN  /\ m_return_buffer_addr' = bufaddr
                /\ process' = [ process EXCEPT !.allocated = @ \cup { bufaddr } ]
                /\ handler_thread' = [ handler_thread EXCEPT
                       ![t].pc = "Setup",
                       ![t].calls = << InferiorCall("AllocateMemory", bufaddr, "ok") >> ]
                /\ UNCHANGED << result, m_retbuffer_mutex >>
       ELSE /\ ReturnFrom(t, GetOperation(GetOperationName(handler_class), handler_class,
                                          EnvOf(t), m_impl_code, LLDB_INVALID_ADDRESS,
                                          process.allocated))
            /\ UNCHANGED << m_return_buffer_addr, process >>
    /\ UNCHANGED m_impl_code
    /\ UNCHANGED otherHandlerVars

\* The Setup function, the tests of the utility function and its caller,
\* and ExecuteFunction; when the function completed the reads of the return
\* buffer are still to come
Get_ExecuteFunction(t) ==
    /\ handler_thread[t].pc = "Setup"
    /\ LET got == UseUtilityFunction(GetOperationName(handler_class), handler_class,
                                     EnvOf(t),
                                     SetupFunction(handler_class, m_impl_code, EnvOf(t)),
                                     m_return_buffer_addr, process.allocated,
                                     handler_thread[t].calls)
       IN  /\ m_impl_code' = got.impl_code
           /\ IF CallsIn(got.calls, "ReadUnsignedIntegerFromMemory") # << >>
              THEN /\ handler_thread' = [ handler_thread EXCEPT
                          ![t].pc = "ReadUnsignedIntegerFromMemory",
                          ![t].pending = << got >> ]
                   /\ UNCHANGED << result, m_retbuffer_mutex >>
              ELSE ReturnFrom(t, got)
    /\ UNCHANGED << m_return_buffer_addr, process >>
    /\ UNCHANGED otherHandlerVars

\* The reads of the pointer, the size and the count from the return buffer,
\* and the return
Get_ReadReturnBuffer(t) ==
    /\ handler_thread[t].pc = "ReadUnsignedIntegerFromMemory"
    /\ ReturnFrom(t, [ handler_thread[t].pending[1] EXCEPT
                           !.allocated = process.allocated ])
    /\ UNCHANGED << m_impl_code, m_return_buffer_addr, process >>
    /\ UNCHANGED otherHandlerVars

\* Detach: the test of the process and the buffer address, and
\* locker.TryLock, which takes the mutex when it is free and goes on
\* without it when it is not
Detach_TryLock(t) ==
    /\ result.fault = FALSE
    /\ handler_thread[t].pc = "idle"
    /\ IF process.alive /\ m_return_buffer_addr # LLDB_INVALID_ADDRESS
       THEN /\ m_retbuffer_mutex' = IF m_retbuffer_mutex = 0 THEN t ELSE m_retbuffer_mutex
            /\ handler_thread' = [ handler_thread EXCEPT ![t].pc = "DeallocateMemory" ]
            /\ UNCHANGED result
       ELSE ReturnFrom(t, [ NoResult EXCEPT !.op = "Detach" ])
    /\ UNCHANGED << m_impl_code, m_return_buffer_addr, process >>
    /\ UNCHANGED otherHandlerVars

\* m_process->DeallocateMemory(m_get_..._return_buffer_addr) and the return
Detach_DeallocateMemory(t) ==
    /\ handler_thread[t].pc = "DeallocateMemory"
    /\ process' = [ process EXCEPT !.allocated = @ \ { m_return_buffer_addr },
                                   !.deallocated = Append(@, m_return_buffer_addr) ]
    /\ ReturnFrom(t, [ NoResult EXCEPT !.op = "Detach" ])
    /\ UNCHANGED << m_impl_code, m_return_buffer_addr >>
    /\ UNCHANGED otherHandlerVars

\* What the calls of the threads meet: everything works, the thread is not
\* safe, the allocation fails, the utility function cannot be had, the
\* function is interrupted
ThreadEnvs ==
    { HandlerEnv,
      [ HandlerEnv EXCEPT !.safe_to_call = FALSE ],
      [ HandlerEnv EXCEPT !.alloc = "error" ],
      [ HandlerEnv EXCEPT !.get_utility = "error", !.on_null = "null_caller" ],
      [ HandlerEnv EXCEPT !.func_call_ret = "eExpressionInterrupted" ] }

NextHandlerThreads ==
    \E t \in Threads :
        \/ \E env \in ThreadEnvs : Get_Enter(t, env)
        \/ Get_Locker(t)
        \/ Get_TestBuffer(t)
        \/ Get_AllocateMemory(t)
        \/ Get_ExecuteFunction(t)
        \/ Get_ReadReturnBuffer(t)
        \/ /\ Len(process.deallocated) < MaxDetaches
           /\ Detach_TryLock(t)
        \/ Detach_DeallocateMemory(t)

SpecHandlerThreads == InitHandlers /\ [][NextHandlerThreads]_vars

GetStatements == { "TestBuffer", "AllocateMemory", "Setup", "ReadUnsignedIntegerFromMemory" }

\* Thread t's Get call holds the Locker on the return-buffer mutex
GetHoldsLocker(t) ==
    /\ m_retbuffer_mutex = t
    /\ handler_thread[t].pc \in GetStatements

\* The step is thread t's successful AllocateMemory
AllocatesBuffer(t) ==
    /\ handler_thread[t].pc = "AllocateMemory"
    /\ handler_thread'[t].pc = "Setup"

\* C37: for one handler, over every interleaving of the threads' Get calls,
\* the return buffer is allocated at most once: a successful AllocateMemory
\* happens only while no valid address is stored and stores one, a stored
\* valid address never changes, and a call that finds a valid address goes
\* on to the Setup function with that address and without an allocation.
C37_AllocatedAtMostOnce ==
    [][ /\ m_return_buffer_addr # LLDB_INVALID_ADDRESS
            => m_return_buffer_addr' = m_return_buffer_addr
        /\ \A t \in Threads :
              AllocatesBuffer(t) => /\ m_return_buffer_addr = LLDB_INVALID_ADDRESS
                                    /\ m_return_buffer_addr' # LLDB_INVALID_ADDRESS
                                    /\ m_return_buffer_addr' \notin process.allocated
        /\ \A t \in Threads :
              ( /\ handler_thread[t].pc = "TestBuffer"
                /\ handler_thread'[t].pc # "TestBuffer"
                /\ m_return_buffer_addr # LLDB_INVALID_ADDRESS )
              => /\ handler_thread'[t].pc = "Setup"
                 /\ handler_thread'[t].calls = << >>
        /\ \A t \in Threads :
              ( /\ handler_thread[t].pc = "Setup"
                /\ handler_thread'[t].pc = "ReadUnsignedIntegerFromMemory" )
              => /\ handler_thread'[t].pending[1].buffer_addr = m_return_buffer_addr
                 /\ Len(CallsIn(handler_thread'[t].pending[1].calls, "AllocateMemory")) <= 1
      ]_vars

\* A call that reused the stored address has called the function and is
\* about to read the buffer, while the other thread's call waits for the
\* mutex
C37_Witness ==
    \E t \in Threads, u \in Threads :
        /\ t # u
        /\ handler_thread[t].pc = "ReadUnsignedIntegerFromMemory"
        /\ CallsIn(handler_thread[t].pending[1].calls, "AllocateMemory") = << >>
        /\ handler_thread[t].pending[1].buffer_addr = m_return_buffer_addr
        /\ m_return_buffer_addr # LLDB_INVALID_ADDRESS
        /\ handler_thread[u].pc = "Locker"
        /\ process.deallocated = << >>

\* C39: while a Get call on one thread holds the return-buffer mutex, a
\* Detach on another thread does not deallocate the return buffer.
C39_NoDeallocationUnderLocker ==
    [][ (\E t \in Threads : GetHoldsLocker(t))
            => process'.deallocated = process.deallocated ]_vars

=============================================================================
